---- MODULE Spec2Model ----
(***************************************************************************)
(* Verification model of the mini-stabble math engine:                     *)
(*   math/fixed.rs    - scaled-integer arithmetic (u128 and u64)           *)
(*   math/weighted.rs - constant-weighted-product swap math                *)
(*   math/stable.rs   - StableSwap invariant and balance solvers           *)
(*                                                                         *)
(* TLC evaluates 32-bit integers, so the integer widths and the            *)
(* fixed-point scale are parameters of the model, far smaller than in the  *)
(* source (u64, u128, U192, SCALE = 10^9, BITS_ONE = 2^30).  Every checked *)
(* operation tests the width BEFORE it computes, as checked_mul /          *)
(* checked_add do.  The loop limits and the convergence thresholds of the  *)
(* stable engine keep their source values; AMP_PRECISION is scaled.        *)
(***************************************************************************)
EXTENDS Integers, Sequences, FiniteSets, TLC

VARIABLES pc, args, ret

vars == <<pc, args, ret>>

(***************************************************************************)
(* Widths and scale (model parameters).                                    *)
(***************************************************************************)
SCALE == 10

BITS_ONE == 16

U64_MAX == 16777215

U128_MAX == 1073741823

U192_MAX == 1073741822

ZERO == 0
ONE == SCALE
TWO == 2 * SCALE
THREE == 3 * SCALE
FOUR == 4 * SCALE
ONE_U64 == SCALE

(***************************************************************************)
(* Result<T, MiniStabbleError> and Option<T>.  A process abort (panic) is  *)
(* the error "Panic".                                                      *)
(***************************************************************************)
Ok(x) == [ok |-> TRUE, v |-> x, err |-> "none"]
Err(e) == [ok |-> FALSE, v |-> 0, err |-> e]
MathOverflow == Err("MathOverflow")
DivideByZero == Err("DivideByZero")
InvalidAmount == Err("InvalidAmount")
None == Err("None")
Some(x) == Ok(x)
Panic == Err("Panic")

Min(x, y) == IF x <= y THEN x ELSE y
Max(x, y) == IF x >= y THEN x ELSE y

\* uN::checked_mul / checked_add / checked_sub: does the result fit the width
MulFits(x, y, max) == x = 0 \/ y <= max \div x
AddFits(x, y, max) == x <= max /\ y <= max - x

(***************************************************************************)
(* math/fixed.rs                                                           *)
(***************************************************************************)
mul_down(a, b) ==
    IF ~MulFits(a, b, U128_MAX) THEN MathOverflow
    ELSE Ok((a * b) \div SCALE)

mul_up(a, b) ==
    IF ~MulFits(a, b, U128_MAX) THEN MathOverflow
    ELSE IF ~AddFits(a * b, SCALE - 1, U128_MAX) THEN MathOverflow
    ELSE Ok((a * b + SCALE - 1) \div SCALE)

\* mutant: the product is checked before the divisor
div_down_overflow_first(a, b) ==
    IF ~MulFits(a, SCALE, U128_MAX) THEN MathOverflow
    ELSE IF b = 0 THEN DivideByZero
    ELSE Ok((a * SCALE) \div b)

div_down(a, b) ==
    IF b = 0 THEN DivideByZero
    ELSE IF ~MulFits(a, SCALE, U128_MAX) THEN MathOverflow
    ELSE Ok((a * SCALE) \div b)

div_up(a, b) ==
    IF b = 0 THEN DivideByZero
    ELSE IF ~MulFits(a, SCALE, U128_MAX) THEN MathOverflow
    ELSE IF ~AddFits(a * SCALE, b - 1, U128_MAX) THEN MathOverflow
    ELSE Ok((a * SCALE + b - 1) \div b)

complement(a) == IF a >= ONE THEN 0 ELSE ONE - a

\* u64::try_from(v).ok()
TryFromU64(v) == IF v <= U64_MAX THEN Ok(v) ELSE MathOverflow

mul_down_u64(a, b) ==
    IF ~MulFits(a, b, U128_MAX) THEN MathOverflow
    ELSE TryFromU64((a * b) \div ONE_U64)

\* mutant: the rounding term is ONE instead of ONE - 1
mul_up_u64_round_one(a, b) ==
    IF ~MulFits(a, b, U128_MAX) THEN MathOverflow
    ELSE IF ~AddFits(a * b, ONE_U64, U128_MAX) THEN MathOverflow
    ELSE TryFromU64((a * b + ONE_U64) \div ONE_U64)

mul_up_u64(a, b) ==
    IF ~MulFits(a, b, U128_MAX) THEN MathOverflow
    ELSE IF ~AddFits(a * b, ONE_U64 - 1, U128_MAX) THEN MathOverflow
    ELSE TryFromU64((a * b + ONE_U64 - 1) \div ONE_U64)

div_down_u64(a, b) ==
    IF b = 0 THEN DivideByZero
    ELSE IF ~MulFits(a, ONE_U64, U128_MAX) THEN MathOverflow
    ELSE TryFromU64((a * ONE_U64) \div b)

div_up_u64(a, b) ==
    IF b = 0 THEN DivideByZero
    ELSE IF ~MulFits(a, ONE_U64, U128_MAX) THEN MathOverflow
    ELSE IF ~AddFits(a * ONE_U64, b - 1, U128_MAX) THEN MathOverflow
    ELSE TryFromU64((a * ONE_U64 + b - 1) \div b)

complement_u64(a) == IF a >= ONE_U64 THEN 0 ELSE ONE_U64 - a

(***************************************************************************)
(* fixed_exp::FixedPowF::powf on U34F30, the external crate behind the     *)
(* general path of pow_down / pow_up.  Its algorithm is not part of the    *)
(* repository, so a call is any outcome between the two neighbouring       *)
(* integer powers of the base (each taken rounded down and rounded up),    *)
(* and None is possible only when that range leaves the type.  Arguments   *)
(* and results are raw bits, BITS_ONE standing for 1.0.                    *)
(***************************************************************************)
\* p * q in bits, rounded down or up, saturating above the type
PowMul(p, q, up) ==
    IF p = 0 \/ q = 0 THEN 0
    ELSE IF p > U64_MAX \/ q > U64_MAX THEN U64_MAX + 1
    ELSE IF q > ((U64_MAX + 1) * BITS_ONE) \div p THEN U64_MAX + 1
    ELSE IF up THEN Min((p * q + BITS_ONE - 1) \div BITS_ONE, U64_MAX + 1)
    ELSE Min((p * q) \div BITS_ONE, U64_MAX + 1)

\* a lower (up = FALSE) or upper (up = TRUE) bound of base^k, by squaring
RECURSIVE PowBound(_, _, _)
PowBound(b, k, up) ==
    IF k = 0 THEN BITS_ONE
    ELSE IF k = 1 THEN b
    ELSE LET h == PowBound(b, k \div 2, up)
             sq == PowMul(h, h, up)
         IN IF k % 2 = 0 THEN sq ELSE PowMul(sq, b, up)

powf(base, exp) ==
    LET k == exp \div BITS_ONE
        f == exp % BITS_ONE
        lo0 == PowBound(base, k, FALSE)
        hi0 == PowBound(base, k, TRUE)
        lo == IF f = 0 THEN lo0 ELSE Min(lo0, PowBound(base, k + 1, FALSE))
        hi == IF f = 0 THEN hi0 ELSE Max(hi0, PowBound(base, k + 1, TRUE))
    IN {Some(r) : r \in lo .. Min(hi, U64_MAX)}
         \cup (IF hi > U64_MAX THEN {None} ELSE {})

\* `x as u64`: the low 64 bits of a u128
AsU64(x) == x % (U64_MAX + 1)

\* the `_ =>` arm of pow_down and of pow_up
PowGeneral(self, rhs, up) ==
    LET base == IF up THEN mul_up_u64(AsU64(self), BITS_ONE)
                ELSE mul_down_u64(AsU64(self), BITS_ONE)
        exp == IF up THEN mul_up_u64(AsU64(rhs), BITS_ONE)
               ELSE mul_down_u64(AsU64(rhs), BITS_ONE)
    IN IF ~base.ok THEN {base}
       ELSE IF ~exp.ok THEN {exp}
       ELSE {IF ~p.ok THEN MathOverflow
             ELSE IF up THEN div_up_u64(p.v, BITS_ONE)
             ELSE div_down_u64(p.v, BITS_ONE) : p \in powf(base.v, exp.v)}

\* FixedPow for u128: the set of results a call can return (one on the
\* exact arms, those of powf on the general arm)
pow_down(self, rhs) ==
    IF rhs = ZERO THEN {Ok(ONE)}
    ELSE IF rhs = ONE THEN {Ok(self)}
    ELSE IF rhs = TWO THEN {mul_down(self, self)}
    ELSE IF rhs = THREE THEN
        LET sq == mul_down(self, self)
        IN IF ~sq.ok THEN {sq} ELSE {mul_down(sq.v, self)}
    ELSE IF rhs = FOUR THEN
        LET square == mul_down(self, self)
        IN IF ~square.ok THEN {square} ELSE {mul_down(square.v, square.v)}
    ELSE PowGeneral(self, rhs, FALSE)

\* mutant: the cube's second product is rounded down
pow_up_cube_down(self, rhs) ==
    IF rhs = ZERO THEN {Ok(ONE)}
    ELSE IF rhs = ONE THEN {Ok(self)}
    ELSE IF rhs = TWO THEN {mul_up(self, self)}
    ELSE IF rhs = THREE THEN
        LET sq == mul_up(self, self)
        IN IF ~sq.ok THEN {sq} ELSE {mul_down(sq.v, self)}
    ELSE IF rhs = FOUR THEN
        LET square == mul_up(self, self)
        IN IF ~square.ok THEN {square} ELSE {mul_up(square.v, square.v)}
    ELSE PowGeneral(self, rhs, TRUE)

pow_up(self, rhs) ==
    IF rhs = ZERO THEN {Ok(ONE)}
    ELSE IF rhs = ONE THEN {Ok(self)}
    ELSE IF rhs = TWO THEN {mul_up(self, self)}
    ELSE IF rhs = THREE THEN
        LET sq == mul_up(self, self)
        IN IF ~sq.ok THEN {sq} ELSE {mul_up(sq.v, self)}
    ELSE IF rhs = FOUR THEN
        LET square == mul_up(self, self)
        IN IF ~square.ok THEN {square} ELSE {mul_up(square.v, square.v)}
    ELSE PowGeneral(self, rhs, TRUE)

FastPath(rhs) == rhs \in {ZERO, ONE, TWO, THREE, FOUR}

(***************************************************************************)
(* Specification SpecFixed: one call of a FixedPoint operation.            *)
(* args = [a, b] are the operands, ret the pair of results (rounded down,  *)
(* rounded up), pc the operation that ran.                                 *)
(***************************************************************************)
NoRet == [down |-> None, up |-> None]

FixedVals ==
    {0, 1, 2, 3, ONE \div 2, ONE - 1, ONE, ONE + 1, ONE + ONE \div 2, TWO,
     TWO + ONE \div 2, THREE, FOUR, 7 * ONE,
     U64_MAX \div SCALE, U64_MAX - 1, U64_MAX, U64_MAX + 1,
     U64_MAX + 1 + ONE \div 2, U64_MAX + 1 + ONE,
     U128_MAX \div SCALE, U128_MAX \div SCALE + 1, U128_MAX - 1, U128_MAX}

InitFixed ==
    /\ pc = "start"
    /\ args \in [a : FixedVals, b : FixedVals]
    /\ ret = NoRet

FixedMulU128 ==
    /\ pc = "start"
    /\ pc' = "mul_u128"
    /\ ret' = [down |-> mul_down(args.a, args.b), up |-> mul_up(args.a, args.b)]
    /\ UNCHANGED args

FixedMulU64 ==
    /\ pc = "start"
    /\ args.a <= U64_MAX /\ args.b <= U64_MAX
    /\ pc' = "mul_u64"
    /\ ret' = [down |-> mul_down_u64(args.a, args.b),
               up |-> mul_up_u64(args.a, args.b)]
    /\ UNCHANGED args

FixedDivU128 ==
    /\ pc = "start"
    /\ pc' = "div_u128"
    /\ ret' = [down |-> div_down(args.a, args.b), up |-> div_up(args.a, args.b)]
    /\ UNCHANGED args

FixedDivU64 ==
    /\ pc = "start"
    /\ args.a <= U64_MAX /\ args.b <= U64_MAX
    /\ pc' = "div_u64"
    /\ ret' = [down |-> div_down_u64(args.a, args.b),
               up |-> div_up_u64(args.a, args.b)]
    /\ UNCHANGED args

NextFixed ==
    \/ FixedMulU128
    \/ FixedMulU64
    \/ FixedDivU128
    \/ FixedDivU64

SpecFixed == InitFixed /\ [][NextFixed]_vars

(***************************************************************************)
(* Specification SpecPow: one call of pow_down or pow_up on u128.          *)
(* args = [a, b] are base and exponent; ret.down / ret.up is the result.   *)
(***************************************************************************)
PowBases ==
    {0, 1, ONE \div 2, ONE - 1, ONE, ONE + 1, ONE + ONE \div 2, TWO,
     U64_MAX, U64_MAX + 1, U64_MAX + 1 + ONE \div 2, U64_MAX + 1 + ONE,
     U128_MAX}

PowExps ==
    {ZERO, 1, ONE \div 2, ONE, ONE + ONE \div 2, TWO, TWO + ONE \div 2,
     THREE, FOUR, 5 * ONE,
     U64_MAX, U64_MAX + 1 + ONE \div 2, U64_MAX + 1 + TWO, U128_MAX}

InitPow ==
    /\ pc = "start"
    /\ args \in [a : PowBases, b : PowExps]
    /\ ret = NoRet

FixedPowDown ==
    /\ pc = "start"
    /\ pc' = "pow_down"
    /\ \E r \in pow_down(args.a, args.b) : ret' = [down |-> r, up |-> None]
    /\ UNCHANGED args

FixedPowUp ==
    /\ pc = "start"
    /\ pc' = "pow_up"
    /\ \E r \in pow_up(args.a, args.b) : ret' = [down |-> None, up |-> r]
    /\ UNCHANGED args

NextPow ==
    \/ FixedPowDown
    \/ FixedPowUp

SpecPow == InitPow /\ [][NextPow]_vars

(***************************************************************************)
(* math/weighted.rs.  Each function is the set of results a call can       *)
(* return: one result, except through the general arm of pow_up.           *)
(***************************************************************************)
\* mutant: the final product is rounded up
calc_out_given_in_mul_up(balance_in, weight_in, balance_out, weight_out, amount_in) ==
    IF ~AddFits(balance_in, amount_in, U128_MAX) THEN {MathOverflow}
    ELSE LET base == div_up(balance_in, balance_in + amount_in)
             exponent == div_down(weight_in, weight_out)
         IN IF ~base.ok THEN {base}
            ELSE IF ~exponent.ok THEN {exponent}
            ELSE {IF ~power.ok THEN power
                  ELSE mul_up(balance_out, complement(power.v)) :
                     power \in pow_up(base.v, exponent.v)}

\* mutant: the base is rounded down
calc_out_given_in_base_down(balance_in, weight_in, balance_out, weight_out, amount_in) ==
    IF ~AddFits(balance_in, amount_in, U128_MAX) THEN {MathOverflow}
    ELSE LET base == div_down(balance_in, balance_in + amount_in)
             exponent == div_down(weight_in, weight_out)
         IN IF ~base.ok THEN {base}
            ELSE IF ~exponent.ok THEN {exponent}
            ELSE {IF ~power.ok THEN power
                  ELSE mul_down(balance_out, complement(power.v)) :
                     power \in pow_up(base.v, exponent.v)}

calc_out_given_in(balance_in, weight_in, balance_out, weight_out, amount_in) ==
    IF ~AddFits(balance_in, amount_in, U128_MAX) THEN {MathOverflow}
    ELSE LET base == div_up(balance_in, balance_in + amount_in)
             exponent == div_down(weight_in, weight_out)
         IN IF ~base.ok THEN {base}
            ELSE IF ~exponent.ok THEN {exponent}
            ELSE {IF ~power.ok THEN power
                  ELSE mul_down(balance_out, complement(power.v)) :
                     power \in pow_up(base.v, exponent.v)}

\* mutant: the final product is rounded down
calc_in_given_out_mul_down(balance_in, weight_in, balance_out, weight_out, amount_out) ==
    IF amount_out > balance_out THEN {MathOverflow}
    ELSE LET base == div_up(balance_out, balance_out - amount_out)
             exponent == div_up(weight_out, weight_in)
         IN IF ~base.ok THEN {base}
            ELSE IF ~exponent.ok THEN {exponent}
            ELSE {IF ~power.ok THEN power
                  ELSE IF power.v < ONE THEN MathOverflow
                  ELSE mul_down(balance_in, power.v - ONE) :
                     power \in pow_up(base.v, exponent.v)}

calc_in_given_out(balance_in, weight_in, balance_out, weight_out, amount_out) ==
    IF amount_out > balance_out THEN {MathOverflow}
    ELSE LET base == div_up(balance_out, balance_out - amount_out)
             exponent == div_up(weight_out, weight_in)
         IN IF ~base.ok THEN {base}
            ELSE IF ~exponent.ok THEN {exponent}
            ELSE {IF ~power.ok THEN power
                  ELSE IF power.v < ONE THEN MathOverflow
                  ELSE mul_up(balance_in, power.v - ONE) :
                     power \in pow_up(base.v, exponent.v)}

(***************************************************************************)
(* Specification SpecWeighted: the weighted swap math on one pool state.   *)
(* args is the pool state and the amount; WeightedOutGivenIn prices a      *)
(* swap, WeightedSwapBack prices the reverse swap of its output on the     *)
(* balances the first swap leaves, WeightedInGivenOut prices an exact-out  *)
(* swap.                                                                   *)
(***************************************************************************)
WeightedBalances == {1, 2, 3, 7, 19, 30}
WeightedWeights == {1, 2, 3, 4, 5, 6, 8}
WeightedAmounts == {0, 1, 2, 5, 12, 20}

InitWeighted ==
    /\ pc = "start"
    /\ args \in [balance_in : WeightedBalances, weight_in : WeightedWeights,
                 balance_out : WeightedBalances, weight_out : WeightedWeights,
                 amount : WeightedAmounts]
    /\ ret = [out |-> None, back |-> None]

WeightedOutGivenIn ==
    /\ pc = "start"
    /\ pc' = "out"
    /\ \E r \in calc_out_given_in(args.balance_in, args.weight_in,
                                  args.balance_out, args.weight_out, args.amount) :
          ret' = [out |-> r, back |-> None]
    /\ UNCHANGED args

WeightedSwapBack ==
    /\ pc = "out"
    /\ ret.out.ok
    /\ ret.out.v <= args.balance_out
    /\ pc' = "back"
    /\ \E r \in calc_out_given_in(args.balance_out - ret.out.v, args.weight_out,
                                  args.balance_in + args.amount, args.weight_in,
                                  ret.out.v) :
          ret' = [ret EXCEPT !.back = r]
    /\ UNCHANGED args

WeightedInGivenOut ==
    /\ pc = "start"
    /\ pc' = "in"
    /\ \E r \in calc_in_given_out(args.balance_in, args.weight_in,
                                  args.balance_out, args.weight_out, args.amount) :
          ret' = [out |-> r, back |-> None]
    /\ UNCHANGED args

NextWeighted ==
    \/ WeightedOutGivenIn
    \/ WeightedSwapBack
    \/ WeightedInGivenOut

SpecWeighted == InitWeighted /\ [][NextWeighted]_vars

(***************************************************************************)
(* math/stable.rs.  AMP_PRECISION is scaled like SCALE: with amp a whole   *)
(* multiple of AMP_PRECISION both solvers compute the same values for any  *)
(* precision, since amp and AMP_PRECISION enter only as amp*n against      *)
(* AMP_PRECISION.                                                          *)
(***************************************************************************)
AMP_PRECISION == 10

MIN_AMP == 1
MAX_AMP == 10000
MAX_LOOP_LIMIT == 256
BALANCE_LOOP_LIMIT == 64
DEFAULT_INV_THRESHOLD == 100
BALANCE_THRESHOLD == 1

\* U192 arithmetic of the bn crate on Option operands: `x.checked_op(y)?`
U(x) == Some(x)

CMul(x, y) ==
    IF ~x.ok THEN x ELSE IF ~y.ok THEN y
    ELSE IF MulFits(x.v, y.v, U192_MAX) THEN Some(x.v * y.v) ELSE None

CAdd(x, y) ==
    IF ~x.ok THEN x ELSE IF ~y.ok THEN y
    ELSE IF AddFits(x.v, y.v, U192_MAX) THEN Some(x.v + y.v) ELSE None

CSub(x, y) ==
    IF ~x.ok THEN x ELSE IF ~y.ok THEN y
    ELSE IF x.v >= y.v THEN Some(x.v - y.v) ELSE None

CDiv(x, y) ==
    IF ~x.ok THEN x ELSE IF ~y.ok THEN y
    ELSE IF y.v = 0 THEN None ELSE Some(x.v \div y.v)

CDivUp(x, y) ==
    IF ~x.ok THEN x ELSE IF ~y.ok THEN y
    ELSE IF y.v = 0 THEN None
    ELSE Some(x.v \div y.v + (IF x.v % y.v = 0 THEN 0 ELSE 1))

\* checked_mul_div_down / checked_mul_div_up: x * y / z
CMulDivDown(x, y, z) == CDiv(CMul(x, y), z)
CMulDivUp(x, y, z) == CDivUp(CMul(x, y), z)

\* u64::checked_mul / checked_add, then uint192!(..)
CMul64(x, y) == IF MulFits(x, y, U64_MAX) THEN Some(x * y) ELSE None
CAdd64(x, y) == IF AddFits(x, y, U64_MAX) THEN Some(x + y) ELSE None

\* U192::as_u64
AsU64Checked(x) == IF ~x.ok THEN x ELSE IF x.v <= U64_MAX THEN x ELSE None

RECURSIVE SeqSum(_)
SeqSum(q) == IF q = <<>> THEN 0 ELSE Head(q) + SeqSum(Tail(q))

\* `balances.iter().sum()` on u64: the sum when it fits; when it does not,
\* the build decides: a panic (overflow checks on) or the low 64 bits.
\* Each entry is [panic, v].
IterSum(balances) ==
    IF SeqSum(balances) <= U64_MAX
    THEN {[panic |-> FALSE, v |-> SeqSum(balances)]}
    ELSE {[panic |-> TRUE, v |-> 0],
          [panic |-> FALSE, v |-> SeqSum(balances) % (U64_MAX + 1)]}

\* the inner loop of calc_invariant: D_P folded over the balances from k on
RECURSIVE InvariantDp(_, _, _, _, _)
InvariantDp(dp, d, n, balances, k) ==
    IF k > Len(balances) \/ ~dp.ok THEN dp
    ELSE InvariantDp(CMulDivDown(dp, U(d), CMul(U(n), U(balances[k]))),
                     d, n, balances, k + 1)

\* the Newton step with n in place of n + 1 in the denominator: the variant
\* the invariant of a balanced pool is tested against
InvariantStepDenominatorN(ann, sum, n, balances, d) ==
    LET dp == InvariantDp(U(d), d, n, balances, 1)
        amp_prec == U(AMP_PRECISION)
        num == CAdd(CMul(U(ann), U(sum)), CMul(CMul(U(n), dp), amp_prec))
        den == CAdd(CMul(CSub(U(ann), amp_prec), U(d)),
                    CMul(CMul(U(n), dp), amp_prec))
    IN CDiv(CMul(num, U(d)), den)


\* one Newton step of calc_invariant: d_new from d
InvariantStep(ann, sum, n, balances, d) ==
    LET dp == InvariantDp(U(d), d, n, balances, 1)
        amp_prec == U(AMP_PRECISION)
        num == CAdd(CMul(U(ann), U(sum)), CMul(CMul(U(n), dp), amp_prec))
        den == CAdd(CMul(CSub(U(ann), amp_prec), U(d)),
                    CMul(CMul(CAdd(U(n), U(1)), dp), amp_prec))
    IN CDiv(CMul(num, U(d)), den)

\* the outer loop of calc_invariant from iteration i (0-based) with iterate d.
\* The record is the run: r the value returned, iters the iterations begun,
\* prev / new the last two iterates, exhausted whether the loop ran out.
RECURSIVE InvariantLoop(_, _, _, _, _, _)
InvariantLoop(ann, sum, n, balances, d, i) ==
    IF i = MAX_LOOP_LIMIT
    THEN [r |-> None, iters |-> i, prev |-> d, new |-> d, exhausted |-> TRUE]
    ELSE LET d_new == InvariantStep(ann, sum, n, balances, d)
         IN IF ~d_new.ok
            THEN [r |-> None, iters |-> i + 1, prev |-> d, new |-> d,
                  exhausted |-> FALSE]
            ELSE LET diff == IF d_new.v > d THEN d_new.v - d ELSE d - d_new.v
                 IN IF diff <= DEFAULT_INV_THRESHOLD
                    THEN [r |-> AsU64Checked(d_new), iters |-> i + 1, prev |-> d,
                          new |-> d_new.v, exhausted |-> FALSE]
                    ELSE InvariantLoop(ann, sum, n, balances, d_new.v, i + 1)

NoRun == [r |-> None, iters |-> 0, prev |-> 0, new |-> 0, exhausted |-> FALSE]

\* calc_invariant: the runs a call can make (one, or the two a sum beyond
\* u64 allows)
stable_calc_invariant_runs(amp, balances) ==
    LET n == Len(balances)
    IN {IF s.panic THEN [NoRun EXCEPT !.r = Panic]
        ELSE IF s.v = 0 THEN [NoRun EXCEPT !.r = Some(0)]
        ELSE IF ~CMul64(amp, n).ok THEN NoRun
        ELSE InvariantLoop(amp * n, s.v, n, balances, s.v, 0) :
           s \in IterSum(balances)}

stable_calc_invariant(amp, balances) ==
    {run.r : run \in stable_calc_invariant_runs(amp, balances)}

\* the first loop of get_token_balance_given_invariant_and_others from
\* index k (1-based) on: [p, sum], both Option
RECURSIVE BalanceProduct(_, _, _, _, _, _)
BalanceProduct(p, sum, n, balances, invariant, k) ==
    IF k > Len(balances) \/ ~p.ok \/ ~sum.ok THEN [p |-> p, sum |-> sum]
    ELSE LET p_i == CMul64(balances[k], n)
         IN IF ~p_i.ok THEN [p |-> None, sum |-> sum]
            ELSE BalanceProduct(CMulDivDown(p, p_i, U(invariant)),
                                IF sum.ok THEN CAdd64(sum.v, balances[k]) ELSE sum,
                                n, balances, invariant, k + 1)

\* one Newton step y = (y^2 + c) / (2y + b - D); `token_balance << 1` drops
\* the bit shifted out of the U192
BalanceStep(token_balance, b, c, invariant) ==
    CDivUp(CAdd(CMul(U(token_balance), U(token_balance)), U(c)),
           CSub(CAdd(U((2 * token_balance) % (U192_MAX + 1)), U(b)), U(invariant)))

\* the Newton loop of get_token_balance_given_invariant_and_others
RECURSIVE BalanceLoop(_, _, _, _, _)
BalanceLoop(token_balance, b, c, invariant, i) ==
    IF i = BALANCE_LOOP_LIMIT
    THEN [r |-> None, iters |-> i, prev |-> token_balance, new |-> token_balance,
          exhausted |-> TRUE]
    ELSE LET y == BalanceStep(token_balance, b, c, invariant)
             failed == [r |-> None, iters |-> i + 1, prev |-> token_balance,
                        new |-> token_balance, exhausted |-> FALSE]
         IN IF ~y.ok THEN failed
            ELSE IF ~AsU64Checked(y).ok \/ token_balance > U64_MAX THEN failed
            ELSE LET diff == IF y.v > token_balance THEN y.v - token_balance
                             ELSE token_balance - y.v
                 IN IF diff <= BALANCE_THRESHOLD
                    THEN [r |-> Some(y.v), iters |-> i + 1, prev |-> token_balance,
                          new |-> y.v, exhausted |-> FALSE]
                    ELSE BalanceLoop(y.v, b, c, invariant, i + 1)

\* get_token_balance_given_invariant_and_others (token_index 1-based): its run
get_token_balance_run(amp, balances, invariant, token_index) ==
    LET num_tokens == Len(balances)
        amp_times_total == CMul64(amp, num_tokens)
        ps == BalanceProduct(CMul64(balances[1], num_tokens), Some(balances[1]),
                             num_tokens, balances, invariant, 2)
        balance == balances[token_index]
        sum == IF ps.sum.v >= balance THEN ps.sum.v - balance ELSE 0
        invariant_2 == CMul(U(invariant), U(invariant))
        c == CMul(CMulDivUp(invariant_2, U(AMP_PRECISION), CMul(amp_times_total, ps.p)),
                  U(balance))
        b == CAdd(CMulDivDown(U(invariant), U(AMP_PRECISION), amp_times_total), U(sum))
        first == CDivUp(CAdd(invariant_2, c), CAdd(U(invariant), b))
    IN IF ~amp_times_total.ok \/ ~ps.p.ok \/ ~ps.sum.ok \/ ~first.ok THEN NoRun
       ELSE BalanceLoop(first.v, b.v, c.v, invariant, 0)

get_token_balance_given_invariant_and_others(amp, balances, invariant, token_index) ==
    get_token_balance_run(amp, balances, invariant, token_index).r

\* mutant: the one-unit margin is added to the output, not taken from it
stable_calc_out_given_in_margin_added(amp, balances, token_index_in, token_index_out, amount_in) ==
    {IF ~inv.r.ok THEN [r |-> inv.r, inv |-> inv, bal |-> NoRun]
     ELSE IF ~AddFits(balances[token_index_in], amount_in, U64_MAX)
     THEN [r |-> None, inv |-> inv, bal |-> NoRun]
     ELSE LET new_balances == [balances EXCEPT ![token_index_in] = @ + amount_in]
              balance_out == balances[token_index_out]
              bal == get_token_balance_run(amp, new_balances, inv.r.v, token_index_out)
          IN IF ~bal.r.ok THEN [r |-> None, inv |-> inv, bal |-> bal]
             ELSE IF balance_out < bal.r.v THEN [r |-> None, inv |-> inv, bal |-> bal]
             ELSE [r |-> Some(balance_out - bal.r.v + 1), inv |-> inv, bal |-> bal] :
        inv \in stable_calc_invariant_runs(amp, balances)}

\* mutant: a failed balance solve is replaced by a default output of 0
stable_calc_out_given_in_default(amp, balances, token_index_in, token_index_out, amount_in) ==
    {IF ~inv.r.ok THEN [r |-> inv.r, inv |-> inv, bal |-> NoRun]
     ELSE IF ~AddFits(balances[token_index_in], amount_in, U64_MAX)
     THEN [r |-> None, inv |-> inv, bal |-> NoRun]
     ELSE LET new_balances == [balances EXCEPT ![token_index_in] = @ + amount_in]
              balance_out == balances[token_index_out]
              bal == get_token_balance_run(amp, new_balances, inv.r.v, token_index_out)
          IN IF ~bal.r.ok THEN [r |-> Some(0), inv |-> inv, bal |-> bal]
             ELSE IF balance_out < bal.r.v + 1 THEN [r |-> None, inv |-> inv, bal |-> bal]
             ELSE [r |-> Some(balance_out - bal.r.v - 1), inv |-> inv, bal |-> bal] :
        inv \in stable_calc_invariant_runs(amp, balances)}

\* stable calc_out_given_in with wrapping subtractions in place of the two
\* checked_sub: the variant the bound on the amount out is tested against
stable_calc_out_given_in_wrapping(amp, balances, token_index_in, token_index_out, amount_in) ==
    {IF ~inv.r.ok THEN [r |-> inv.r, inv |-> inv, bal |-> NoRun]
     ELSE IF ~AddFits(balances[token_index_in], amount_in, U64_MAX)
     THEN [r |-> None, inv |-> inv, bal |-> NoRun]
     ELSE LET new_balances == [balances EXCEPT ![token_index_in] = @ + amount_in]
              balance_out == balances[token_index_out]
              bal == get_token_balance_run(amp, new_balances, inv.r.v, token_index_out)
          IN IF ~bal.r.ok THEN [r |-> None, inv |-> inv, bal |-> bal]
             ELSE [r |-> Some((balance_out - bal.r.v - 1) % (U64_MAX + 1)),
                   inv |-> inv, bal |-> bal] :
        inv \in stable_calc_invariant_runs(amp, balances)}


\* stable calc_out_given_in: the set of records [r, inv, bal] a call can
\* produce: r the result, inv and bal the runs of the two solvers
stable_calc_out_given_in_runs(amp, balances, token_index_in, token_index_out, amount_in) ==
    {IF ~inv.r.ok THEN [r |-> inv.r, inv |-> inv, bal |-> NoRun]
     ELSE IF ~AddFits(balances[token_index_in], amount_in, U64_MAX)
     THEN [r |-> None, inv |-> inv, bal |-> NoRun]
     ELSE LET new_balances == [balances EXCEPT ![token_index_in] = @ + amount_in]
              balance_out == balances[token_index_out]
              bal == get_token_balance_run(amp, new_balances, inv.r.v, token_index_out)
          IN IF ~bal.r.ok THEN [r |-> None, inv |-> inv, bal |-> bal]
             ELSE IF balance_out < bal.r.v + 1 THEN [r |-> None, inv |-> inv, bal |-> bal]
             ELSE [r |-> Some(balance_out - bal.r.v - 1), inv |-> inv, bal |-> bal] :
        inv \in stable_calc_invariant_runs(amp, balances)}

stable_calc_out_given_in(amp, balances, token_index_in, token_index_out, amount_in) ==
    {x.r : x \in stable_calc_out_given_in_runs(amp, balances, token_index_in,
                                               token_index_out, amount_in)}

\* mutant: the one-unit margin is left off the required input
stable_calc_in_given_out_no_margin(amp, balances, token_index_in, token_index_out, amount_out) ==
    {IF ~inv.r.ok THEN [r |-> inv.r, inv |-> inv, bal |-> NoRun]
     ELSE IF balances[token_index_out] < amount_out
     THEN [r |-> None, inv |-> inv, bal |-> NoRun]
     ELSE LET new_balances == [balances EXCEPT ![token_index_out] = @ - amount_out]
              balance_in == balances[token_index_in]
              bal == get_token_balance_run(amp, new_balances, inv.r.v, token_index_in)
          IN IF ~bal.r.ok THEN [r |-> None, inv |-> inv, bal |-> bal]
             ELSE IF bal.r.v < balance_in THEN [r |-> None, inv |-> inv, bal |-> bal]
             ELSE [r |-> Some(bal.r.v - balance_in), inv |-> inv, bal |-> bal] :
        inv \in stable_calc_invariant_runs(amp, balances)}

\* stable calc_in_given_out, as records [r, inv, bal]
stable_calc_in_given_out_runs(amp, balances, token_index_in, token_index_out, amount_out) ==
    {IF ~inv.r.ok THEN [r |-> inv.r, inv |-> inv, bal |-> NoRun]
     ELSE IF balances[token_index_out] < amount_out
     THEN [r |-> None, inv |-> inv, bal |-> NoRun]
     ELSE LET new_balances == [balances EXCEPT ![token_index_out] = @ - amount_out]
              balance_in == balances[token_index_in]
              bal == get_token_balance_run(amp, new_balances, inv.r.v, token_index_in)
          IN IF ~bal.r.ok THEN [r |-> None, inv |-> inv, bal |-> bal]
             ELSE IF bal.r.v < balance_in THEN [r |-> None, inv |-> inv, bal |-> bal]
             ELSE IF ~AddFits(bal.r.v - balance_in, 1, U64_MAX)
             THEN [r |-> None, inv |-> inv, bal |-> bal]
             ELSE [r |-> Some(bal.r.v - balance_in + 1), inv |-> inv, bal |-> bal] :
        inv \in stable_calc_invariant_runs(amp, balances)}

stable_calc_in_given_out(amp, balances, token_index_in, token_index_out, amount_out) ==
    {x.r : x \in stable_calc_in_given_out_runs(amp, balances, token_index_in,
                                               token_index_out, amount_out)}

(***************************************************************************)
(* Specification SpecStable: the stable swap math on one pool state.       *)
(* args is the pool state (amp, balances), the two token indices and two   *)
(* amounts, amount <= amount2.  ret.r is the result of the first call,     *)
(* ret.inv / ret.bal the runs of its solvers, ret.second the result of     *)
(* the call that follows it (the same call on amount2, or the reverse      *)
(* swap).                                                                  *)
(***************************************************************************)
StableAmps == {1, AMP_PRECISION, 5 * AMP_PRECISION, U64_MAX}
StableBalances == {0, 1, 2, 3, 5, 7, 11, 40, 305, U64_MAX \div 2 + 1, U64_MAX}
StableBalances3 == {1, 5, 11}
StableAmounts == {0, 1, 7, 8, 9}

StablePools ==
    [1..2 -> StableBalances] \cup [1..3 -> StableBalances3]

InitStable ==
    /\ pc = "start"
    /\ \E b \in StablePools, i \in 1..3, j \in 1..3 :
          /\ i <= Len(b) /\ j <= Len(b) /\ i # j
          /\ args \in [amp : StableAmps, balances : {b},
                       token_index_in : {i}, token_index_out : {j},
                       amount : StableAmounts, amount2 : StableAmounts]
    /\ args.amount <= args.amount2
    /\ ret = [r |-> None, inv |-> NoRun, bal |-> NoRun, second |-> None]

StableCalcInvariant ==
    /\ pc = "start"
    /\ pc' = "invariant"
    /\ \E run \in stable_calc_invariant_runs(args.amp, args.balances) :
          ret' = [r |-> run.r, inv |-> run, bal |-> NoRun, second |-> None]
    /\ UNCHANGED args

StableOutGivenIn ==
    /\ pc = "start"
    /\ pc' = "out"
    /\ \E x \in stable_calc_out_given_in_runs(args.amp, args.balances,
                    args.token_index_in, args.token_index_out, args.amount) :
          ret' = [r |-> x.r, inv |-> x.inv, bal |-> x.bal, second |-> None]
    /\ UNCHANGED args

StableOutGivenInAgain ==
    /\ pc = "out"
    /\ pc' = "out2"
    /\ \E r \in stable_calc_out_given_in(args.amp, args.balances,
                    args.token_index_in, args.token_index_out, args.amount2) :
          ret' = [ret EXCEPT !.second = r]
    /\ UNCHANGED args

StableSwapBack ==
    /\ pc = "out"
    /\ ret.r.ok
    /\ pc' = "back"
    /\ LET after == [args.balances EXCEPT
                        ![args.token_index_in] = @ + args.amount,
                        ![args.token_index_out] = @ - ret.r.v]
       IN \E r \in stable_calc_out_given_in(args.amp, after,
                       args.token_index_out, args.token_index_in, ret.r.v) :
             ret' = [ret EXCEPT !.second = r]
    /\ UNCHANGED args

StableInGivenOut ==
    /\ pc = "start"
    /\ pc' = "in"
    /\ \E x \in stable_calc_in_given_out_runs(args.amp, args.balances,
                    args.token_index_in, args.token_index_out, args.amount) :
          ret' = [r |-> x.r, inv |-> x.inv, bal |-> x.bal, second |-> None]
    /\ UNCHANGED args

StableInGivenOutAgain ==
    /\ pc = "in"
    /\ pc' = "in2"
    /\ \E r \in stable_calc_in_given_out(args.amp, args.balances,
                    args.token_index_in, args.token_index_out, args.amount2) :
          ret' = [ret EXCEPT !.second = r]
    /\ UNCHANGED args

NextStable ==
    \/ StableCalcInvariant
    \/ StableOutGivenIn
    \/ StableOutGivenInAgain
    \/ StableSwapBack
    \/ StableInGivenOut
    \/ StableInGivenOutAgain

SpecStable == InitStable /\ [][NextStable]_vars

(***************************************************************************)
(* Claims on FixedPoint                                                    *)
(***************************************************************************)
MulRan == pc \in {"mul_u128", "mul_u64"}
DivRan == pc \in {"div_u128", "div_u64"}
PowRan == pc \in {"pow_down", "pow_up"}
PowRet == IF pc = "pow_down" THEN ret.down ELSE ret.up

\* C5: in both widths a successful mul_down(a,b) is floor(a*b/SCALE) and a
\* successful mul_up(a,b) is ceil(a*b/SCALE), so when both succeed
\* mul_down <= mul_up <= mul_down + 1.
C5_MulRounding ==
    MulRan =>
        /\ ret.down.ok =>
              /\ ret.down.v * SCALE <= args.a * args.b
              /\ args.a * args.b - ret.down.v * SCALE < SCALE
        /\ ret.up.ok =>
              /\ args.a * args.b <= ret.up.v * SCALE
              /\ ret.up.v * SCALE - args.a * args.b < SCALE
        /\ (ret.down.ok /\ ret.up.ok) =>
              /\ ret.down.v <= ret.up.v
              /\ ret.up.v <= ret.down.v + 1

\* C5 witness: a u64 product that is not a multiple of SCALE, rounded both ways
C5_Witness ==
    /\ pc = "mul_u64"
    /\ ret.down.ok /\ ret.up.ok
    /\ ret.down.v > 0
    /\ ret.up.v = ret.down.v + 1

\* C6: in both widths a zero divisor gives DivideByZero whatever the dividend
\* is, and a successful div_down(a,b) is floor(a*SCALE/b), a successful
\* div_up(a,b) is ceil(a*SCALE/b).
C6_DivRounding ==
    DivRan =>
        /\ args.b = 0 => (ret.down = DivideByZero /\ ret.up = DivideByZero)
        /\ (args.b # 0 /\ ret.down.ok) =>
              /\ ret.down.v * args.b <= args.a * SCALE
              /\ args.a * SCALE - ret.down.v * args.b < args.b
        /\ (args.b # 0 /\ ret.up.ok) =>
              /\ args.a * SCALE <= ret.up.v * args.b
              /\ ret.up.v * args.b - args.a * SCALE < args.b

\* C6 witness: a zero divisor under a dividend whose product with SCALE
\* leaves the width
C6_Witness ==
    /\ pc = "div_u128"
    /\ args.b = 0
    /\ ~MulFits(args.a, SCALE, U128_MAX)
    /\ ret.down = DivideByZero

\* C7: pow_down / pow_up on u128, off the exact arms, with a base or an
\* exponent that does not fit 64 bits, fail with MathOverflow.
C7_PowNoTruncation ==
    (PowRan /\ ~FastPath(args.b) /\ (args.a > U64_MAX \/ args.b > U64_MAX))
        => PowRet = MathOverflow

(***************************************************************************)
(* Claims on the weighted engine                                           *)
(***************************************************************************)
RECURSIVE IPow(_, _)
IPow(x, k) == IF k = 0 THEN 1 ELSE x * IPow(x, k - 1)

\* the exponent of the forward swap and of the reverse swap
OutExponent == div_down(args.weight_in, args.weight_out).v
BackExponent == div_down(args.weight_out, args.weight_in).v
InExponent == div_up(args.weight_out, args.weight_in).v

C3_OutRoundedDown ==
    (pc = "out" /\ ret.out.ok /\ OutExponent \in {ONE, TWO, THREE, FOUR}
       /\ args.weight_in = (OutExponent \div ONE) * args.weight_out)
        => LET k == OutExponent \div ONE
               s == args.balance_in + args.amount
           IN ret.out.v * IPow(s, k)
                 <= args.balance_out * (IPow(s, k) - IPow(args.balance_in, k))

\* C3 witness: a swap on the cubic arm whose output is positive and strictly
\* below the exact value
C3_Witness ==
    /\ pc = "out" /\ ret.out.ok /\ OutExponent = THREE
    /\ ret.out.v > 0
    /\ LET s == args.balance_in + args.amount
       IN ret.out.v * IPow(s, 3)
             < args.balance_out * (IPow(s, 3) - IPow(args.balance_in, 3))

\* C4: calc_in_given_out fails when amount_out >= balance_out, and on the
\* exact exponents k = weight_out / weight_in in 1..4 a successful call
\* returns at least the exact value
\* balance_in * ((balance_out / (balance_out - amount_out))^k - 1), i.e.
\* in * (balance_out - amount_out)^k >= balance_in * (balance_out^k - (balance_out - amount_out)^k).
C4_InRoundedUp ==
    pc = "in" =>
        /\ args.amount >= args.balance_out => ~ret.out.ok
        /\ (ret.out.ok /\ InExponent \in {ONE, TWO, THREE, FOUR}
              /\ args.weight_out = (InExponent \div ONE) * args.weight_in)
            => LET k == InExponent \div ONE
                   d == args.balance_out - args.amount
               IN ret.out.v * IPow(d, k)
                     >= args.balance_in * (IPow(args.balance_out, k) - IPow(d, k))

\* C4 witness: an exact-out swap on the square arm charged strictly more than
\* the exact value
C4_Witness ==
    /\ pc = "in" /\ ret.out.ok /\ InExponent = TWO
    /\ args.amount > 0
    /\ LET d == args.balance_out - args.amount
       IN ret.out.v * IPow(d, 2)
             > args.balance_in * (IPow(args.balance_out, 2) - IPow(d, 2))

(***************************************************************************)
(* Claims on the stable engine                                             *)
(***************************************************************************)
\* C2: a stable swap of amount_in followed by the reverse swap of its output,
\* on the balances the first swap leaves, never returns more than amount_in
\* when both calls succeed.
C2_StableRoundTrip ==
    (pc = "back" /\ ret.second.ok) => ret.second.v <= args.amount

\* C2 witness: a round trip that moved tokens both ways
C2_Witness ==
    /\ pc = "back"
    /\ ret.r.ok /\ ret.r.v > 0
    /\ ret.second.ok /\ ret.second.v > 0

\* C8: calc_invariant returns None - no value, no abort - for every balances
\* array whose true sum exceeds u64.
C8_InvariantOverflowIsNone ==
    (pc = "invariant" /\ SeqSum(args.balances) > U64_MAX) => ret.r = None

\* C9: both stable pricing functions are non-decreasing in the amount: for
\* amount <= amount2 on the same pool state, when both calls succeed the
\* result for amount is at most the result for amount2.
C9_StableMonotone ==
    (pc \in {"out2", "in2"} /\ ret.r.ok /\ ret.second.ok) => ret.r.v <= ret.second.v

\* |new - prev| of a solver run
RunDiff(run) == IF run.new > run.prev THEN run.new - run.prev ELSE run.prev - run.new

\* the u64 sum calc_invariant computed is 0
ZeroSum == \E x \in IterSum(args.balances) : ~x.panic /\ x.v = 0

C11_ZeroInputsRejected ==
    (pc = "invariant" /\ SeqSum(args.balances) = 0) => ~ret.r.ok

(***************************************************************************)
(* math/weighted.rs: calc_invariant.                                       *)
(***************************************************************************)
\* the loop of calc_invariant from token k (1-based) on, with the running
\* product `invariant`: the set of Results it can end with
RECURSIVE InvariantFold(_, _, _, _)
InvariantFold(invariant, balances, weights, k) ==
    IF k > Len(balances) THEN {Ok(invariant)}
    ELSE UNION {IF ~result.ok THEN {result}
                ELSE LET m == mul_down(invariant, result.v)
                     IN IF ~m.ok THEN {m}
                        ELSE InvariantFold(m.v, balances, weights, k + 1) :
                   result \in pow_down(balances[k], weights[k])}

\* mutant: a zero product is returned as a value
calc_invariant_zero_ok(balances, weights) ==
    IF Len(balances) # Len(weights) \/ Len(balances) = 0
    THEN {[r |-> InvalidAmount, product |-> None]}
    ELSE {[r |-> product, product |-> product] :
             product \in InvariantFold(ONE, balances, weights, 1)}

\* weighted calc_invariant: the set of records [r, product] a call can
\* produce: r the result, product the outcome of the loop
calc_invariant(balances, weights) ==
    IF Len(balances) # Len(weights) \/ Len(balances) = 0
    THEN {[r |-> InvalidAmount, product |-> None]}
    ELSE {[r |-> IF ~product.ok THEN product
                 ELSE IF product.v > 0 THEN Ok(product.v)
                 ELSE InvalidAmount,
           product |-> product] :
             product \in InvariantFold(ONE, balances, weights, 1)}

(***************************************************************************)
(* Specification SpecWeightedInvariant: one call of weighted               *)
(* calc_invariant.  args = [balances, weights], ret = [r, product].        *)
(***************************************************************************)
InvariantBalances == {0, 1, 5, ONE, TWO, FOUR, 9 * ONE, 7 * (U64_MAX + 1)}
InvariantWeights == {ZERO, ONE \div 2, ONE, TWO}

SeqsUpTo2(S) == {<<>>} \cup {<<x>> : x \in S} \cup {<<x, y>> : x \in S, y \in S}

InitWeightedInvariant ==
    /\ pc = "start"
    /\ args \in [balances : SeqsUpTo2(InvariantBalances),
                 weights : SeqsUpTo2(InvariantWeights)]
    /\ ret = [r |-> None, product |-> None]

WeightedCalcInvariant ==
    /\ pc = "start"
    /\ pc' = "calc_invariant"
    /\ ret' \in calc_invariant(args.balances, args.weights)
    /\ UNCHANGED args

NextWeightedInvariant == WeightedCalcInvariant

SpecWeightedInvariant == InitWeightedInvariant /\ [][NextWeightedInvariant]_vars

\* C12: weighted calc_invariant returns InvalidAmount exactly when the two
\* arrays differ in length, are empty, or the product computed is 0;
\* otherwise an error of the loop is returned as it is, and a value returned
\* is the running product from ONE of mul_down(acc, pow_down(balance_i,
\* weight_i)) and is > 0.  A single token of weight ONE gives its balance.
C12_WeightedInvariant ==
    pc = "calc_invariant" =>
        LET b == args.balances
            w == args.weights
        IN /\ ret.r = InvalidAmount <=>
                  \/ Len(b) # Len(w)
                  \/ Len(b) = 0
                  \/ ret.product.ok /\ ret.product.v = 0
           /\ ret.r.ok => ret.r.v > 0 /\ ret.product = ret.r
           /\ (ret.r.ok /\ Len(b) = 1) =>
                  \E p \in pow_down(b[1], w[1]) :
                      p.ok /\ ret.r = mul_down(ONE, p.v)
           /\ (ret.r.ok /\ Len(b) = 2) =>
                  \E p \in pow_down(b[1], w[1]), q \in pow_down(b[2], w[2]) :
                      /\ p.ok /\ q.ok
                      /\ ret.r = mul_down(mul_down(ONE, p.v).v, q.v)
           /\ (Len(b) = 1 /\ w = <<ONE>> /\ b[1] > 0 /\ MulFits(ONE, b[1], U128_MAX))
                  => ret.r = Ok(b[1])

\* C12 witness: a two-token call that returned a product, and the
\* single-token case
C12_Witness ==
    /\ pc = "calc_invariant"
    /\ Len(args.balances) = 2
    /\ args.weights = <<ONE \div 2, ONE \div 2>>
    /\ args.balances = <<FOUR, 9 * ONE>>
    /\ ret.r.ok

(***************************************************************************)
(* math/stable.rs: proportional liquidity math.  Option<Vec<u64>> is the   *)
(* Option record with a sequence as its value.                             *)
(***************************************************************************)
\* u64::try_from(x).ok() of a u128
TryFromU64Option(x) == IF x <= U64_MAX THEN Some(x) ELSE None

\* (balance as u128).checked_mul(lp as u128)?.checked_div(lp_supply as u128)?
\* then u64::try_from
ProportionalOutAmount(balance, lp_amount_in, lp_supply) ==
    IF ~MulFits(balance, lp_amount_in, U128_MAX) THEN None
    ELSE IF lp_supply = 0 THEN None
    ELSE TryFromU64Option((balance * lp_amount_in) \div lp_supply)

\* the loop of calc_tokens_out_proportional from token k on
RECURSIVE ProportionalOutFold(_, _, _, _, _)
ProportionalOutFold(amounts_out, balances, lp_amount_in, lp_supply, k) ==
    IF k > Len(balances) THEN Some(amounts_out)
    ELSE LET amount == ProportionalOutAmount(balances[k], lp_amount_in, lp_supply)
         IN IF ~amount.ok THEN amount
            ELSE ProportionalOutFold(Append(amounts_out, amount.v), balances,
                                     lp_amount_in, lp_supply, k + 1)

calc_tokens_out_proportional(balances, lp_amount_in, lp_supply) ==
    ProportionalOutFold(<<>>, balances, lp_amount_in, lp_supply, 1)

\* mutant: the required deposit is rounded down
ProportionalInAmountFloor(balance, lp_amount_out, lp_supply, wrap) ==
    ProportionalOutAmount(balance, lp_amount_out, lp_supply)

\* one amount of calc_tokens_in_proportional.  `lp_supply as u128 - 1` is
\* unchecked: for lp_supply = 0 it panics (overflow checks on, wrap = FALSE)
\* or wraps to u128::MAX (wrap = TRUE).
ProportionalInAmount(balance, lp_amount_out, lp_supply, wrap) ==
    IF ~MulFits(balance, lp_amount_out, U128_MAX) THEN None
    ELSE IF lp_supply = 0 /\ ~wrap THEN Panic
    ELSE LET round == IF lp_supply = 0 THEN U128_MAX ELSE lp_supply - 1
         IN IF ~AddFits(balance * lp_amount_out, round, U128_MAX) THEN None
            ELSE IF lp_supply = 0 THEN None
            ELSE TryFromU64Option((balance * lp_amount_out + round) \div lp_supply)

RECURSIVE ProportionalInFold(_, _, _, _, _, _)
ProportionalInFold(amounts_in, balances, lp_amount_out, lp_supply, wrap, k) ==
    IF k > Len(balances) THEN Some(amounts_in)
    ELSE LET amount == ProportionalInAmount(balances[k], lp_amount_out, lp_supply, wrap)
         IN IF ~amount.ok THEN amount
            ELSE ProportionalInFold(Append(amounts_in, amount.v), balances,
                                    lp_amount_out, lp_supply, wrap, k + 1)

\* calc_tokens_in_proportional: the set of results of the two builds
calc_tokens_in_proportional(balances, lp_amount_out, lp_supply) ==
    {ProportionalInFold(<<>>, balances, lp_amount_out, lp_supply, wrap, 1) :
        wrap \in BOOLEAN}

(***************************************************************************)
(* Specification SpecProportional: calc_tokens_out_proportional and        *)
(* calc_tokens_in_proportional on the same arguments.                      *)
(* args = [balances, lp_amount, lp_supply], ret = [out, in].               *)
(***************************************************************************)
ProportionalBalances == {0, 1, 3, 7, 10, U64_MAX \div 16}
ProportionalLpAmounts == {0, 1, 2, 3, 10, 64}
ProportionalLpSupplies == {0, 1, 2, 3, 7, 10}

InitProportional ==
    /\ pc = "start"
    /\ args \in [balances : SeqsUpTo2(ProportionalBalances),
                 lp_amount : ProportionalLpAmounts,
                 lp_supply : ProportionalLpSupplies]
    /\ ret = [out |-> None, in |-> None]

CalcTokensOutProportional ==
    /\ pc = "start"
    /\ pc' = "out"
    /\ ret' = [ret EXCEPT !.out = calc_tokens_out_proportional(
                                      args.balances, args.lp_amount, args.lp_supply)]
    /\ UNCHANGED args

CalcTokensInProportional ==
    /\ pc \in {"start", "out"}
    /\ pc' = IF pc = "start" THEN "in" ELSE "both"
    /\ \E r \in calc_tokens_in_proportional(args.balances, args.lp_amount, args.lp_supply) :
           ret' = [ret EXCEPT !.in = r]
    /\ UNCHANGED args

NextProportional ==
    \/ CalcTokensOutProportional
    \/ CalcTokensInProportional

SpecProportional == InitProportional /\ [][NextProportional]_vars

\* balance_i * lp_amount of the call
ProRata(i) == args.balances[i] * args.lp_amount

\* every floor(balance_i * lp_amount / lp_supply) fits u64
FloorsFit == \A i \in 1..Len(args.balances) : ProRata(i) \div args.lp_supply <= U64_MAX

\* C13: for lp_supply > 0, calc_tokens_out_proportional returns the floor and
\* calc_tokens_in_proportional the ceiling of balance_i * lp_amount /
\* lp_supply for every token; so each deposit amount is >= the withdrawal
\* amount, by at most 1, and equal to it when the division is exact.
C13_ProportionalRounding ==
    args.lp_supply > 0 =>
        /\ pc \in {"out", "both"} =>
              /\ ret.out.ok <=> FloorsFit
              /\ ret.out.ok =>
                    /\ Len(ret.out.v) = Len(args.balances)
                    /\ \A i \in 1..Len(args.balances) :
                          /\ ret.out.v[i] * args.lp_supply <= ProRata(i)
                          /\ ProRata(i) - ret.out.v[i] * args.lp_supply < args.lp_supply
        /\ (pc \in {"in", "both"} /\ ret.in.ok) =>
              /\ Len(ret.in.v) = Len(args.balances)
              /\ \A i \in 1..Len(args.balances) :
                    /\ ret.in.v[i] * args.lp_supply >= ProRata(i)
                    /\ ret.in.v[i] * args.lp_supply - ProRata(i) < args.lp_supply
        /\ (pc = "both" /\ ret.in.ok /\ ret.out.ok) =>
              \A i \in 1..Len(args.balances) :
                  /\ ret.in.v[i] >= ret.out.v[i]
                  /\ ret.in.v[i] - ret.out.v[i] <= 1
                  /\ ProRata(i) % args.lp_supply = 0 => ret.in.v[i] = ret.out.v[i]
        /\ (pc = "both" /\ ret.out.ok /\ ~ret.in.ok) =>
              \E i \in 1..Len(args.balances) :
                  ProRata(i) \div args.lp_supply = U64_MAX /\ ProRata(i) % args.lp_supply # 0

\* C13 witness: both functions returned, one amount exact and one rounded
C13_Witness ==
    /\ pc = "both"
    /\ ret.out.ok /\ ret.in.ok
    /\ Len(args.balances) = 2
    /\ ret.in.v[1] = ret.out.v[1] /\ ret.out.v[1] > 0
    /\ ret.in.v[2] = ret.out.v[2] + 1

\* C14: stable calc_out_given_in returns exactly balances[idx_out] - y - 1,
\* y the balance of idx_out solved at the pre-swap invariant with
\* balances[idx_in] increased by amount_in, and None when that is negative;
\* calc_in_given_out returns exactly y' - balances[idx_in] + 1, y' the
\* balance of idx_in solved with balances[idx_out] decreased by amount_out,
\* and fails when amount_out > balances[idx_out].
C14_StableMargin ==
    LET b == args.balances
        i == args.token_index_in
        o == args.token_index_out
        D == ret.inv.r
    IN /\ (pc = "out" /\ D.ok /\ AddFits(b[i], args.amount, U64_MAX)) =>
              LET y == get_token_balance_given_invariant_and_others(
                           args.amp, [b EXCEPT ![i] = @ + args.amount], D.v, o)
              IN /\ D \in stable_calc_invariant(args.amp, b)
                 /\ (y.ok /\ b[o] - y.v - 1 >= 0) => ret.r = Some(b[o] - y.v - 1)
                 /\ (y.ok /\ b[o] - y.v - 1 < 0) => ret.r = None
                 /\ ~y.ok => ret.r = None
       /\ (pc = "in" /\ args.amount > b[o]) => ~ret.r.ok
       /\ (pc = "in" /\ ret.r.ok) =>
              LET y == get_token_balance_given_invariant_and_others(
                           args.amp, [b EXCEPT ![o] = @ - args.amount], D.v, i)
              IN /\ D \in stable_calc_invariant(args.amp, b)
                 /\ y.ok
                 /\ ret.r.v = y.v - b[i] + 1

\* C14 witness: a swap whose solved balance left an output of more than one
\* unit after the margin
C14_Witness ==
    pc = "out" /\ ret.bal.r.ok /\ ret.r.ok /\ ret.r.v > 1 /\ args.amount > 0

(***************************************************************************)
(* math/stable.rs: LP tokens for a deposit.  Each function is the set of   *)
(* results a call can return (calc_invariant has two outcomes when the     *)
(* balance sum exceeds u64).                                               *)
(***************************************************************************)
\* Result::ok(): an Err becomes None
OkOption(r) == IF r.ok THEN Some(r.v) ELSE None

\* u64::saturating_sub
SaturatingSub(x, y) == IF x >= y THEN x - y ELSE 0

\* new_balances of calc_lp_tokens_for_deposit_simple from token k on
RECURSIVE DepositSimpleBalances(_, _, _, _)
DepositSimpleBalances(new_balances, balances, amounts_in, k) ==
    IF k > Len(balances) THEN Some(new_balances)
    ELSE IF ~AddFits(balances[k], amounts_in[k], U64_MAX) THEN None
    ELSE DepositSimpleBalances(Append(new_balances, balances[k] + amounts_in[k]),
                               balances, amounts_in, k + 1)

\* lp_supply * new_d / current_d - lp_supply in u128, then u64::try_from
DepositSimpleLp(lp_supply, new_d, current_d) ==
    IF ~MulFits(lp_supply, new_d, U128_MAX) THEN None
    ELSE IF current_d = 0 THEN None
    ELSE IF (lp_supply * new_d) \div current_d < lp_supply THEN None
    ELSE TryFromU64Option((lp_supply * new_d) \div current_d - lp_supply)

calc_lp_tokens_for_deposit_simple(amp, balances, amounts_in, lp_supply) ==
    UNION {IF ~current_d.ok THEN {current_d}
           ELSE LET new_balances == DepositSimpleBalances(<<>>, balances, amounts_in, 1)
                IN IF ~new_balances.ok THEN {None}
                   ELSE {IF ~new_d.ok THEN new_d
                         ELSE DepositSimpleLp(lp_supply, new_d.v, current_d.v) :
                            new_d \in stable_calc_invariant(amp, new_balances.v)} :
              current_d \in stable_calc_invariant(amp, balances)}

\* the first loop of calc_lp_tokens_for_deposit_with_fee from token k on:
\* Some([balance_ratios, ideal_ratio]) or None
RECURSIVE DepositRatios(_, _, _, _, _, _)
DepositRatios(balance_ratios, ideal_ratio, balances, amounts_in, sum, k) ==
    IF k > Len(balances)
    THEN Some([balance_ratios |-> balance_ratios, ideal_ratio |-> ideal_ratio])
    ELSE IF ~AddFits(balances[k], amounts_in[k], U64_MAX) THEN None
    ELSE LET ratio == div_down_u64(balances[k] + amounts_in[k], balances[k])
             weight == div_down_u64(balances[k], sum)
             part == mul_down_u64(ratio.v, weight.v)
         IN IF ~ratio.ok THEN None
            ELSE IF ~weight.ok THEN None
            ELSE IF ~part.ok THEN None
            ELSE IF ~AddFits(ideal_ratio, part.v, U64_MAX) THEN None
            ELSE DepositRatios(Append(balance_ratios, ratio.v), ideal_ratio + part.v,
                               balances, amounts_in, sum, k + 1)

\* amount_in_without_fee of token k
AmountInWithoutFee(balance, amount_in, balance_ratio, ideal_ratio, swap_fee) ==
    IF balance_ratio > ideal_ratio
    THEN LET non_taxable == mul_down_u64(balance, SaturatingSub(ideal_ratio, ONE_U64))
             taxable == SaturatingSub(amount_in, non_taxable.v)
             net == mul_down_u64(taxable, complement_u64(swap_fee))
         IN IF ~non_taxable.ok THEN None
            ELSE IF ~net.ok THEN None
            ELSE IF ~AddFits(net.v, non_taxable.v, U64_MAX) THEN None
            ELSE Some(net.v + non_taxable.v)
    ELSE Some(amount_in)

\* the second loop of calc_lp_tokens_for_deposit_with_fee from token k on
RECURSIVE DepositFeeBalances(_, _, _, _, _, _, _)
DepositFeeBalances(new_balances, balances, amounts_in, balance_ratios, ideal_ratio, swap_fee, k) ==
    IF k > Len(balances) THEN Some(new_balances)
    ELSE LET a == AmountInWithoutFee(balances[k], amounts_in[k], balance_ratios[k],
                                     ideal_ratio, swap_fee)
         IN IF ~a.ok THEN None
            ELSE IF ~AddFits(balances[k], a.v, U64_MAX) THEN None
            ELSE DepositFeeBalances(Append(new_balances, balances[k] + a.v), balances,
                                    amounts_in, balance_ratios, ideal_ratio, swap_fee,
                                    k + 1)

\* step 5: lp_supply * (new_invariant / current_invariant - 1), 0 if not above
DepositFeeLp(lp_supply, new_invariant, current_invariant) ==
    LET ratio == div_down_u64(new_invariant, current_invariant)
    IN IF ~ratio.ok THEN None
       ELSE IF ratio.v > ONE_U64
       THEN OkOption(mul_down_u64(lp_supply, SaturatingSub(ratio.v, ONE_U64)))
       ELSE Some(0)

\* calc_lp_tokens_for_deposit_with_fee: records [r, new_invariant]
calc_lp_tokens_for_deposit_with_fee_runs(amp, balances, amounts_in, lp_supply, current_invariant, swap_fee) ==
    UNION {IF s.panic THEN {[r |-> Panic, new_invariant |-> None]}
           ELSE LET ratios == DepositRatios(<<>>, 0, balances, amounts_in, s.v, 1)
                    new_balances == DepositFeeBalances(<<>>, balances, amounts_in,
                                        ratios.v.balance_ratios, ratios.v.ideal_ratio,
                                        swap_fee, 1)
                IN IF ~ratios.ok THEN {[r |-> None, new_invariant |-> None]}
                   ELSE IF ~new_balances.ok THEN {[r |-> None, new_invariant |-> None]}
                   ELSE {[r |-> IF ~new_invariant.ok THEN new_invariant
                                ELSE DepositFeeLp(lp_supply, new_invariant.v,
                                                  current_invariant),
                          new_invariant |-> new_invariant] :
                            new_invariant \in stable_calc_invariant(amp, new_balances.v)} :
              s \in IterSum(balances)}

calc_lp_tokens_for_deposit_with_fee(amp, balances, amounts_in, lp_supply, current_invariant, swap_fee) ==
    {x.r : x \in calc_lp_tokens_for_deposit_with_fee_runs(amp, balances, amounts_in,
                     lp_supply, current_invariant, swap_fee)}

(***************************************************************************)
(* Specification SpecDeposit: a deposit priced without and with the swap   *)
(* fee.  args = [amp, balances, amounts_in, lp_supply, swap_fee];          *)
(* ret = [current_invariant, simple, with_fee, new_invariant].             *)
(***************************************************************************)
DepositAmps == {AMP_PRECISION, 5 * AMP_PRECISION}
DepositBalances == {0, 1, 2, 18, 305, U64_MAX}
DepositAmounts == {0, 1, 7, 400}
DepositLpSupplies == {1, 10, 50}
DepositFees == {0, 1, ONE_U64 \div 2, ONE_U64 - 1}

InitDeposit ==
    /\ pc = "start"
    /\ args \in [amp : DepositAmps,
                 balances : [1..2 -> DepositBalances],
                 amounts_in : [1..2 -> DepositAmounts],
                 lp_supply : DepositLpSupplies,
                 swap_fee : DepositFees]
    /\ ret = [current_invariant |-> None, simple |-> None, with_fee |-> None,
              new_invariant |-> None]

DepositSimple ==
    /\ pc = "start"
    /\ pc' = "simple"
    /\ \E r \in calc_lp_tokens_for_deposit_simple(args.amp, args.balances,
                    args.amounts_in, args.lp_supply) :
          ret' = [ret EXCEPT !.simple = r]
    /\ UNCHANGED args

\* the caller obtains current_invariant from calc_invariant, then prices
DepositWithFee ==
    /\ pc = "simple"
    /\ pc' = "with_fee"
    /\ \E d \in stable_calc_invariant(args.amp, args.balances) :
          /\ d.ok
          /\ \E x \in calc_lp_tokens_for_deposit_with_fee_runs(args.amp, args.balances,
                        args.amounts_in, args.lp_supply, d.v, args.swap_fee) :
                ret' = [ret EXCEPT !.current_invariant = d, !.with_fee = x.r,
                                   !.new_invariant = x.new_invariant]
    /\ UNCHANGED args

NextDeposit ==
    \/ DepositSimple
    \/ DepositWithFee

SpecDeposit == InitDeposit /\ [][NextDeposit]_vars

\* C15: whenever both succeed, the LP minted with the swap fee charged is at
\* most the LP minted without it.
C15_FeeNeverIncreasesLp ==
    (pc = "with_fee" /\ ret.simple.ok /\ ret.with_fee.ok)
        => ret.with_fee.v <= ret.simple.v

(***************************************************************************)
(* math/stable.rs: calc_token_out_for_lp_burn.                             *)
(***************************************************************************)
\* step 1: current_invariant * (lp_supply - lp_amount_in) / lp_supply
BurnNewInvariant(current_invariant, lp_amount_in, lp_supply) ==
    IF lp_supply < lp_amount_in THEN None
    ELSE IF ~MulFits(current_invariant, lp_supply - lp_amount_in, U128_MAX) THEN None
    ELSE IF lp_supply = 0 THEN None
    ELSE TryFromU64Option((current_invariant * (lp_supply - lp_amount_in)) \div lp_supply)

\* mutant: the fee-reduced taxable amount is rounded up
BurnAmountOutUp(taxable_amount, non_taxable_amount, swap_fee) ==
    LET net == mul_up_u64(taxable_amount, complement_u64(swap_fee))
    IN IF ~net.ok THEN None
       ELSE IF ~AddFits(net.v, non_taxable_amount, U64_MAX) THEN None
       ELSE Some(net.v + non_taxable_amount)

\* final amount = taxable * (1 - fee) + non_taxable
BurnAmountOut(taxable_amount, non_taxable_amount, swap_fee) ==
    LET net == mul_down_u64(taxable_amount, complement_u64(swap_fee))
    IN IF ~net.ok THEN None
       ELSE IF ~AddFits(net.v, non_taxable_amount, U64_MAX) THEN None
       ELSE Some(net.v + non_taxable_amount)

NoBurn == [r |-> None, new_invariant |-> None, raw |-> 0, taxable |-> 0, non_taxable |-> 0]

\* steps 2-4 for one value of the unchecked balance sum: a record [r,
\* new_invariant, raw, taxable, non_taxable]
BurnRun(amp, balances, token_index, new_invariant, s, swap_fee) ==
    LET balance == balances[token_index]
        new_balance == get_token_balance_given_invariant_and_others(
                           amp, balances, new_invariant.v, token_index)
        amount_out_without_fee == balance - new_balance.v
        current_weight == div_down_u64(balance, s.v)
        taxable_amount == mul_up_u64(amount_out_without_fee,
                                     complement_u64(current_weight.v))
        non_taxable_amount == SaturatingSub(amount_out_without_fee, taxable_amount.v)
        failed == [NoBurn EXCEPT !.new_invariant = new_invariant]
    IN IF ~new_balance.ok THEN failed
       ELSE IF balance < new_balance.v THEN failed
       ELSE IF s.panic THEN [failed EXCEPT !.r = Panic]
       ELSE IF ~current_weight.ok THEN failed
       ELSE IF ~taxable_amount.ok THEN failed
       ELSE [r |-> BurnAmountOut(taxable_amount.v, non_taxable_amount, swap_fee),
             new_invariant |-> new_invariant,
             raw |-> amount_out_without_fee,
             taxable |-> taxable_amount.v,
             non_taxable |-> non_taxable_amount]

calc_token_out_for_lp_burn_runs(amp, balances, token_index, lp_amount_in, lp_supply, current_invariant, swap_fee) ==
    LET new_invariant == BurnNewInvariant(current_invariant, lp_amount_in, lp_supply)
    IN IF ~new_invariant.ok THEN {NoBurn}
       ELSE {BurnRun(amp, balances, token_index, new_invariant, s, swap_fee) :
                s \in IterSum(balances)}

calc_token_out_for_lp_burn(amp, balances, token_index, lp_amount_in, lp_supply, current_invariant, swap_fee) ==
    {x.r : x \in calc_token_out_for_lp_burn_runs(amp, balances, token_index,
                     lp_amount_in, lp_supply, current_invariant, swap_fee)}

(***************************************************************************)
(* Specification SpecBurn: a single-sided withdrawal priced at swap_fee    *)
(* and again at swap_fee2 >= swap_fee.  args = [amp, balances,             *)
(* token_index, lp_amount_in, lp_supply, swap_fee, swap_fee2];             *)
(* ret = [current_invariant, run, second].                                 *)
(***************************************************************************)
BurnAmps == {AMP_PRECISION, 5 * AMP_PRECISION}
BurnBalances == {0, 1, 18, 305, 4000, U64_MAX}
BurnLpAmounts == {0, 1, 5, 10, 50, 60}
BurnLpSupplies == {0, 1, 10, 50}
BurnFees == {0, 1, ONE_U64 \div 2, ONE_U64 - 1}

InitBurn ==
    /\ pc = "start"
    /\ args \in [amp : BurnAmps,
                 balances : [1..2 -> BurnBalances],
                 token_index : 1..2,
                 lp_amount_in : BurnLpAmounts,
                 lp_supply : BurnLpSupplies,
                 swap_fee : BurnFees,
                 swap_fee2 : BurnFees]
    /\ args.swap_fee <= args.swap_fee2
    /\ ret = [current_invariant |-> None, run |-> NoBurn, second |-> None]

\* the caller obtains current_invariant from calc_invariant, then prices
BurnLp ==
    /\ pc = "start"
    /\ pc' = "burn"
    /\ \E d \in stable_calc_invariant(args.amp, args.balances) :
          /\ d.ok
          /\ \E x \in calc_token_out_for_lp_burn_runs(args.amp, args.balances,
                        args.token_index, args.lp_amount_in, args.lp_supply, d.v,
                        args.swap_fee) :
                ret' = [current_invariant |-> d, run |-> x, second |-> None]
    /\ UNCHANGED args

BurnLpAgain ==
    /\ pc = "burn"
    /\ pc' = "burn2"
    /\ \E r \in calc_token_out_for_lp_burn(args.amp, args.balances, args.token_index,
                    args.lp_amount_in, args.lp_supply, ret.current_invariant.v,
                    args.swap_fee2) :
          ret' = [ret EXCEPT !.second = r]
    /\ UNCHANGED args

NextBurn ==
    \/ BurnLp
    \/ BurnLpAgain

SpecBurn == InitBurn /\ [][NextBurn]_vars

\* C16: calc_token_out_for_lp_burn fails when lp_burn > lp_supply or
\* lp_supply = 0; otherwise D_new is the floor of D_old * (lp_supply -
\* lp_burn) / lp_supply, raw = balance - solved_balance(D_new), taxable =
\* mul_up(raw, complement(balance / sum)), non_taxable = raw - taxable, and
\* the result is taxable * (1 - swap_fee) + non_taxable: at most raw, raw
\* itself when swap_fee = 0, and not larger at a larger swap_fee.
C16_BurnAmount ==
    pc \in {"burn", "burn2"} =>
        LET D == ret.current_invariant.v
            left == args.lp_supply - args.lp_amount_in
            balance == args.balances[args.token_index]
            run == ret.run
        IN /\ (args.lp_amount_in > args.lp_supply \/ args.lp_supply = 0) => ~run.r.ok
           /\ run.new_invariant.ok =>
                 /\ run.new_invariant.v * args.lp_supply <= D * left
                 /\ D * left - run.new_invariant.v * args.lp_supply < args.lp_supply
           /\ run.r.ok =>
                 LET y == get_token_balance_given_invariant_and_others(args.amp,
                              args.balances, run.new_invariant.v, args.token_index)
                     share == div_down_u64(balance, SeqSum(args.balances))
                 IN /\ y.ok /\ run.raw = balance - y.v
                    /\ run.taxable = mul_up_u64(run.raw, complement_u64(share.v)).v
                    /\ run.non_taxable = run.raw - run.taxable
                    /\ run.r.v = mul_down_u64(run.taxable,
                                     ONE_U64 - args.swap_fee).v + run.non_taxable
                    /\ run.r.v <= run.raw
                    /\ args.swap_fee = 0 => run.r.v = run.raw
           /\ (pc = "burn2" /\ run.r.ok /\ ret.second.ok) => ret.second.v <= run.r.v

\* C16 witness: a burn that paid out less at the larger fee
C16_Witness ==
    /\ pc = "burn2"
    /\ ret.run.r.ok /\ ret.second.ok
    /\ ret.run.taxable > 0 /\ ret.run.non_taxable > 0
    /\ ret.second.v < ret.run.r.v

(***************************************************************************)
(* math/weighted.rs: calc_lp_to_mint.                                      *)
(***************************************************************************)
\* mutant: the power is rounded up
calc_lp_to_mint_pow_up(lp_supply, k_new, k_old, sum_of_weights) ==
    LET base == div_down(k_new, k_old)
    IN IF ~base.ok THEN {base}
       ELSE {IF ~base_pow.ok THEN base_pow
             ELSE IF base_pow.v < ONE THEN MathOverflow
             ELSE mul_down(lp_supply, base_pow.v - ONE) :
                base_pow \in pow_up(base.v, sum_of_weights)}

\* calc_lp_to_mint: the set of results a call can return
calc_lp_to_mint(lp_supply, k_new, k_old, sum_of_weights) ==
    LET base == div_down(k_new, k_old)
    IN IF ~base.ok THEN {base}
       ELSE {IF ~base_pow.ok THEN base_pow
             ELSE IF base_pow.v < ONE THEN MathOverflow
             ELSE mul_down(lp_supply, base_pow.v - ONE) :
                base_pow \in pow_down(base.v, sum_of_weights)}

(***************************************************************************)
(* Specification SpecLpToMint: one call of calc_lp_to_mint.                *)
(* args = [lp_supply, k_new, k_old, sum_of_weights], ret its result.       *)
(***************************************************************************)
LpInvariants == {0, 1, 2, 3, 5, 10, 15, 20, U128_MAX}
LpSupplies == {0, 1, 7, 50, 100, U128_MAX}
LpWeightSums == {ZERO, ONE \div 2, ONE, TWO, THREE, FOUR}

InitLpToMint ==
    /\ pc = "start"
    /\ args \in [lp_supply : LpSupplies, k_new : LpInvariants, k_old : LpInvariants,
                 sum_of_weights : LpWeightSums]
    /\ ret = None

CalcLpToMint ==
    /\ pc = "start"
    /\ pc' = "calc_lp_to_mint"
    /\ ret' \in calc_lp_to_mint(args.lp_supply, args.k_new, args.k_old,
                                args.sum_of_weights)
    /\ UNCHANGED args

NextLpToMint == CalcLpToMint

SpecLpToMint == InitLpToMint /\ [][NextLpToMint]_vars

\* the whole exponent of an exact arm
WeightSumExponent == args.sum_of_weights \div ONE

FastPathProduct(x, rhs, up) ==
    LET mul(p, q) == IF up THEN mul_up(p, q) ELSE mul_down(p, q)
        sq == mul(x, x)
    IN IF rhs = ZERO THEN Ok(ONE)
       ELSE IF rhs = ONE THEN Ok(x)
       ELSE IF rhs = TWO THEN sq
       ELSE IF ~sq.ok THEN sq
       ELSE IF rhs = THREE THEN mul(sq.v, x)
       ELSE mul(sq.v, sq.v)

\* C18: for exponent 0, ONE, 2 * ONE, 3 * ONE, 4 * ONE pow_down and pow_up
\* take the exact arm: ONE for exponent 0 whatever the base, the base for
\* exponent ONE, and products of mul_down only (pow_down) or mul_up only
\* (pow_up) for 2, 3, 4; so pow_down(x, e) <= x^e <= pow_up(x, e) in fixed
\* point.
C18_PowFastPath ==
    (PowRan /\ FastPath(args.b)) =>
        LET x == args.a
            e == args.b \div ONE
            up == pc = "pow_up"
        IN /\ PowRet = FastPathProduct(x, args.b, up)
           /\ args.b = ZERO => PowRet = Ok(ONE)
           /\ args.b = ONE => PowRet = Ok(x)
           /\ (PowRet.ok /\ e >= 2 /\ x <= FOUR /\ ~up) =>
                 PowRet.v * IPow(SCALE, e - 1) <= IPow(x, e)
           /\ (PowRet.ok /\ e >= 2 /\ x <= FOUR /\ up) =>
                 PowRet.v * IPow(SCALE, e - 1) >= IPow(x, e)

\* C18 witness: a cube that the two roundings take apart
C18_Witness ==
    /\ pc = "pow_up"
    /\ args.b = THREE
    /\ args.a = ONE + ONE \div 2
    /\ ret.up.ok
    /\ ret.up.v * IPow(SCALE, 2) > IPow(args.a, 3)


(***************************************************************************)
(* state/pool.rs and instructions/*.rs: the instruction handlers.          *)
(* A pool is [is_active, swap_fee, amp, tokens], tokens the sequence of    *)
(* its PoolTokens [mint, scaling_factor, balance, weight] (indexed from 1  *)
(* here, from 0 in the source).  A handler is the set of outcomes a call   *)
(* can have, each a record                                                 *)
(*   result     what the handler returns (Panic for a process abort),      *)
(*   tokens     pool.tokens as the handler leaves it in the account it     *)
(*              was given,                                                 *)
(*   engine_in  the amount handed to the engine, if it was called,         *)
(*   amount_out the amount after the fee, if it was computed,              *)
(*   transfers  the amounts of the token-program calls that succeeded,     *)
(*              in order.                                                  *)
(* cpi_fail names the token-program call that fails (0: none does).        *)
(***************************************************************************)
PoolInActive == Err("PoolInActive")
InvalidMint == Err("InvalidMint")
SlippageExceeded == Err("SlippageExceeded")
TryFromIntError == Err("TryFromIntError")
TokenProgramError == Err("TokenProgramError")

scale_amount_up(token, raw_amount) ==
    IF MulFits(raw_amount, token.scaling_factor, U64_MAX)
    THEN Ok(raw_amount * token.scaling_factor)
    ELSE Panic

scale_amount_down(token, scaled_amount) ==
    IF token.scaling_factor = 0 THEN Panic
    ELSE Ok(scaled_amount \div token.scaling_factor)

get_token_index(pool, mint) ==
    LET found == {i \in 1..Len(pool.tokens) : pool.tokens[i].mint = mint}
    IN IF found = {} THEN None
       ELSE Some(CHOOSE i \in found : \A j \in found : i <= j)

get_balances(pool) == [i \in 1..Len(pool.tokens) |-> pool.tokens[i].balance]

HandlerOutcome(result, tokens, engine_in, amount_out, transfers) ==
    [result |-> result, tokens |-> tokens, engine_in |-> engine_in,
     amount_out |-> amount_out, transfers |-> transfers]

\* `x += y` and `x -= y` on u64: the sum or difference, and when it leaves
\* the type an abort (overflow checks on) or the wrapped value (off)
AddAssign(x, y) ==
    IF AddFits(x, y, U64_MAX) THEN {Ok(x + y)}
    ELSE {Panic, Ok((x - (U64_MAX + 1)) + y)}

SubAssign(x, y) ==
    IF y <= x THEN {Ok(x - y)}
    ELSE {Panic, Ok((x + (U64_MAX + 1)) - y)}

\* instructions/swap.rs, steps 4 to 7, for one result of calc_out_given_in
SwapSettle(pool, token_0_index, token_1_index, amount_in, min_amount_out, cpi_fail, amount_out_without_fee) ==
    LET Stop(e, amount_out, transfers) ==
            {HandlerOutcome(e, pool.tokens, Some(amount_in), amount_out, transfers)}
        amount_out_after_fee ==
            mul_down(amount_out_without_fee.v, complement_u64(pool.swap_fee))
    IN IF ~amount_out_without_fee.ok THEN Stop(amount_out_without_fee, None, <<>>)
       ELSE IF ~amount_out_after_fee.ok THEN Stop(amount_out_after_fee, None, <<>>)
       ELSE IF amount_out_after_fee.v < min_amount_out
       THEN Stop(SlippageExceeded, amount_out_after_fee, <<>>)
       ELSE IF cpi_fail = 1 THEN Stop(TokenProgramError, amount_out_after_fee, <<>>)
       ELSE IF amount_out_after_fee.v > U64_MAX
       THEN Stop(TryFromIntError, amount_out_after_fee, <<amount_in>>)
       ELSE IF cpi_fail = 2
       THEN Stop(TokenProgramError, amount_out_after_fee, <<amount_in>>)
       ELSE LET amount_out_u64 == amount_out_after_fee.v
                transfers == <<amount_in, amount_out_u64>>
            IN UNION {
                 IF ~balance_in.ok
                 THEN {HandlerOutcome(Panic, pool.tokens, Some(amount_in),
                                      amount_out_after_fee, transfers)}
                 ELSE LET tokens_in == [pool.tokens EXCEPT
                                           ![token_0_index].balance = balance_in.v]
                      IN {IF ~balance_out.ok
                          THEN HandlerOutcome(Panic, tokens_in, Some(amount_in),
                                              amount_out_after_fee, transfers)
                          ELSE HandlerOutcome(Ok(0),
                                   [tokens_in EXCEPT
                                       ![token_1_index].balance = balance_out.v],
                                   Some(amount_in), amount_out_after_fee, transfers) :
                            balance_out \in SubAssign(tokens_in[token_1_index].balance,
                                                      amount_out_u64)} :
                    balance_in \in AddAssign(pool.tokens[token_0_index].balance,
                                             amount_in)}

\* instructions/swap.rs: handler
swap_handler(pool, mint_in, mint_out, amount_in, min_amount_out, cpi_fail) ==
    LET token_0_index == get_token_index(pool, mint_in)
        token_1_index == get_token_index(pool, mint_out)
        Reject(e) == {HandlerOutcome(e, pool.tokens, None, None, <<>>)}
    IN IF ~pool.is_active THEN Reject(PoolInActive)
       ELSE IF ~token_0_index.ok THEN Reject(InvalidMint)
       ELSE IF ~token_1_index.ok THEN Reject(InvalidMint)
       ELSE IF amount_in = 0 THEN Reject(InvalidAmount)
       ELSE IF min_amount_out = 0 THEN Reject(InvalidAmount)
       ELSE LET token_in == pool.tokens[token_0_index.v]
                token_out == pool.tokens[token_1_index.v]
            IN UNION {SwapSettle(pool, token_0_index.v, token_1_index.v, amount_in,
                                 min_amount_out, cpi_fail, amount_out_without_fee) :
                         amount_out_without_fee \in
                             calc_out_given_in(token_in.balance, token_in.weight,
                                               token_out.balance, token_out.weight,
                                               amount_in)}

\* mutant: the slippage check compares min_amount_out with the scaled
\* amount
StableSwapSettleScaledCheck(pool, token_in_index, token_out_index, amount_in, min_amount_out, cpi_fail, scaled_amount_in, amount_out_scaled) ==
    LET Stop(e, amount_out, transfers) ==
            {HandlerOutcome(e, pool.tokens, Some(scaled_amount_in), amount_out,
                            transfers)}
        after_fee == mul_down(amount_out_scaled.v, SCALE - pool.swap_fee)
        out_raw == scale_amount_down(pool.tokens[token_out_index], after_fee.v)
    IN IF amount_out_scaled = Panic THEN Stop(Panic, None, <<>>)
       ELSE IF ~amount_out_scaled.ok THEN Stop(InvalidAmount, None, <<>>)
       ELSE IF pool.swap_fee > SCALE THEN Stop(MathOverflow, None, <<>>)
       ELSE IF ~after_fee.ok THEN Stop(after_fee, None, <<>>)
       ELSE IF after_fee.v > U64_MAX THEN Stop(TryFromIntError, None, <<>>)
       ELSE IF ~out_raw.ok THEN Stop(Panic, after_fee, <<>>)
       ELSE IF ~(min_amount_out <= after_fee.v) THEN Stop(SlippageExceeded, after_fee, <<>>)
       ELSE IF cpi_fail = 1 THEN Stop(TokenProgramError, after_fee, <<>>)
       ELSE IF cpi_fail = 2 THEN Stop(TokenProgramError, after_fee, <<amount_in>>)
       ELSE LET transfers == <<amount_in, out_raw.v>>
                balance_in == pool.tokens[token_in_index].balance
                tokens_in == [pool.tokens EXCEPT
                                 ![token_in_index].balance = balance_in + scaled_amount_in]
                balance_out == tokens_in[token_out_index].balance
            IN IF ~AddFits(balance_in, scaled_amount_in, U64_MAX)
               THEN Stop(MathOverflow, after_fee, transfers)
               ELSE IF balance_out < after_fee.v
               THEN {HandlerOutcome(MathOverflow, tokens_in, Some(scaled_amount_in),
                                    after_fee, transfers)}
               ELSE {HandlerOutcome(Ok(0),
                        [tokens_in EXCEPT
                            ![token_out_index].balance = balance_out - after_fee.v],
                        Some(scaled_amount_in), after_fee, transfers)}


\* instructions/stable_swap.rs, from the fee on, for one result of
\* calc_out_given_in
StableSwapSettle(pool, token_in_index, token_out_index, amount_in, min_amount_out, cpi_fail, scaled_amount_in, amount_out_scaled) ==
    LET Stop(e, amount_out, transfers) ==
            {HandlerOutcome(e, pool.tokens, Some(scaled_amount_in), amount_out,
                            transfers)}
        after_fee == mul_down(amount_out_scaled.v, SCALE - pool.swap_fee)
        out_raw == scale_amount_down(pool.tokens[token_out_index], after_fee.v)
    IN IF amount_out_scaled = Panic THEN Stop(Panic, None, <<>>)
       ELSE IF ~amount_out_scaled.ok THEN Stop(InvalidAmount, None, <<>>)
       ELSE IF pool.swap_fee > SCALE THEN Stop(MathOverflow, None, <<>>)
       ELSE IF ~after_fee.ok THEN Stop(after_fee, None, <<>>)
       ELSE IF after_fee.v > U64_MAX THEN Stop(TryFromIntError, None, <<>>)
       ELSE IF ~out_raw.ok THEN Stop(Panic, after_fee, <<>>)
       ELSE IF ~(min_amount_out <= out_raw.v) THEN Stop(SlippageExceeded, after_fee, <<>>)
       ELSE IF cpi_fail = 1 THEN Stop(TokenProgramError, after_fee, <<>>)
       ELSE IF cpi_fail = 2 THEN Stop(TokenProgramError, after_fee, <<amount_in>>)
       ELSE LET transfers == <<amount_in, out_raw.v>>
                balance_in == pool.tokens[token_in_index].balance
                tokens_in == [pool.tokens EXCEPT
                                 ![token_in_index].balance = balance_in + scaled_amount_in]
                balance_out == tokens_in[token_out_index].balance
            IN IF ~AddFits(balance_in, scaled_amount_in, U64_MAX)
               THEN Stop(MathOverflow, after_fee, transfers)
               ELSE IF balance_out < after_fee.v
               THEN {HandlerOutcome(MathOverflow, tokens_in, Some(scaled_amount_in),
                                    after_fee, transfers)}
               ELSE {HandlerOutcome(Ok(0),
                        [tokens_in EXCEPT
                            ![token_out_index].balance = balance_out - after_fee.v],
                        Some(scaled_amount_in), after_fee, transfers)}

\* instructions/stable_swap.rs: handler
stable_swap_handler(pool, mint_in, mint_out, amount_in, min_amount_out, cpi_fail) ==
    LET token_in_index == get_token_index(pool, mint_in)
        token_out_index == get_token_index(pool, mint_out)
        Reject(e) == {HandlerOutcome(e, pool.tokens, None, None, <<>>)}
    IN IF ~pool.is_active THEN Reject(PoolInActive)
       ELSE IF amount_in = 0 THEN Reject(InvalidAmount)
       ELSE IF min_amount_out = 0 THEN Reject(InvalidAmount)
       ELSE IF ~token_in_index.ok THEN Reject(InvalidMint)
       ELSE IF ~token_out_index.ok THEN Reject(InvalidMint)
       ELSE LET scaled_amount_in ==
                    scale_amount_up(pool.tokens[token_in_index.v], amount_in)
            IN IF ~scaled_amount_in.ok THEN Reject(Panic)
               ELSE UNION {StableSwapSettle(pool, token_in_index.v, token_out_index.v,
                                            amount_in, min_amount_out, cpi_fail,
                                            scaled_amount_in.v, amount_out_scaled) :
                              amount_out_scaled \in
                                  stable_calc_out_given_in(pool.amp, get_balances(pool),
                                      token_in_index.v, token_out_index.v,
                                      scaled_amount_in.v)}


\* u128::isqrt
RECURSIVE isqrt(_)
isqrt(n) ==
    IF n < 2 THEN n
    ELSE LET small == 2 * isqrt(n \div 4)
             large == small + 1
         IN IF large * large > n THEN small ELSE large

\* the two `balance = balance.checked_add(..)?` statements that end
\* deposit, deposit_unbalanced and stable_deposit
DepositApply(pool, token_a_index, token_b_index, amount_a, amount_b, transfers) ==
    LET balance_a == pool.tokens[token_a_index].balance
        tokens_a == [pool.tokens EXCEPT ![token_a_index].balance = balance_a + amount_a]
        balance_b == tokens_a[token_b_index].balance
    IN IF ~AddFits(balance_a, amount_a, U64_MAX)
       THEN {HandlerOutcome(MathOverflow, pool.tokens, None, None, transfers)}
       ELSE IF ~AddFits(balance_b, amount_b, U64_MAX)
       THEN {HandlerOutcome(MathOverflow, tokens_a, None, None, transfers)}
       ELSE {HandlerOutcome(Ok(0),
                [tokens_a EXCEPT ![token_b_index].balance = balance_b + amount_b],
                None, None, transfers)}

\* the three token-program calls of a deposit (transfer a, transfer b,
\* mint_to), then the balance update
DepositSettle(pool, token_a_index, token_b_index, amount_a, amount_b, transfer_a, transfer_b, lp_to_mint, cpi_fail) ==
    IF cpi_fail = 1
    THEN {HandlerOutcome(TokenProgramError, pool.tokens, None, None, <<>>)}
    ELSE IF cpi_fail = 2
    THEN {HandlerOutcome(TokenProgramError, pool.tokens, None, None, <<transfer_a>>)}
    ELSE IF cpi_fail = 3
    THEN {HandlerOutcome(TokenProgramError, pool.tokens, None, None,
                         <<transfer_a, transfer_b>>)}
    ELSE DepositApply(pool, token_a_index, token_b_index, amount_a, amount_b,
                      <<transfer_a, transfer_b, lp_to_mint>>)

\* instructions/deposit.rs: one required amount of a normal deposit
DepositRequired(lp_amount, vault_balance, lp_supply) ==
    IF ~MulFits(lp_amount, vault_balance, U128_MAX) THEN MathOverflow
    ELSE LET required == div_up(lp_amount * vault_balance, lp_supply)
         IN IF ~required.ok THEN required
            ELSE IF required.v > U64_MAX THEN TryFromIntError
            ELSE required

\* instructions/deposit.rs: (lp_to_mint, token_a_required, token_b_required),
\* a Result whose value is the triple
DepositAmountsRequired(pool, token_a_index, token_b_index, lp_supply, lp_amount, input_token_a_amount, input_token_b_amount) ==
    IF lp_supply = 0
    THEN LET scaled_a == scale_amount_up(pool.tokens[token_a_index], input_token_a_amount)
             scaled_b == scale_amount_up(pool.tokens[token_b_index], input_token_b_amount)
         IN IF input_token_a_amount = 0 THEN InvalidAmount
            ELSE IF input_token_b_amount = 0 THEN InvalidAmount
            ELSE IF ~scaled_a.ok THEN Panic
            ELSE IF ~scaled_b.ok THEN Panic
            ELSE IF ~MulFits(scaled_a.v, scaled_b.v, U128_MAX) THEN MathOverflow
            ELSE LET lp_to_mint == isqrt(scaled_a.v * scaled_b.v)
                 IN IF lp_to_mint > U64_MAX THEN TryFromIntError
                    ELSE Ok(<<lp_to_mint, scaled_a.v, scaled_b.v>>)
    ELSE LET token_a_required ==
                 DepositRequired(lp_amount, pool.tokens[token_a_index].balance, lp_supply)
             token_b_required ==
                 DepositRequired(lp_amount, pool.tokens[token_b_index].balance, lp_supply)
         IN IF lp_amount = 0 THEN InvalidAmount
            ELSE IF ~token_a_required.ok THEN token_a_required
            ELSE IF ~token_b_required.ok THEN token_b_required
            ELSE Ok(<<lp_amount, token_a_required.v, token_b_required.v>>)

\* instructions/deposit.rs: handler
deposit_handler(pool, lp_supply, token_a_mint, token_b_mint, lp_amount, input_token_a_amount, input_token_b_amount, cpi_fail) ==
    LET token_a_index == get_token_index(pool, token_a_mint)
        token_b_index == get_token_index(pool, token_b_mint)
        Reject(e) == {HandlerOutcome(e, pool.tokens, None, None, <<>>)}
    IN IF ~pool.is_active THEN Reject(PoolInActive)
       ELSE IF ~token_a_index.ok THEN Reject(InvalidMint)
       ELSE IF ~token_b_index.ok THEN Reject(InvalidMint)
       ELSE LET amounts == DepositAmountsRequired(pool, token_a_index.v, token_b_index.v,
                               lp_supply, lp_amount, input_token_a_amount,
                               input_token_b_amount)
                lp_to_mint == amounts.v[1]
                token_a_required == amounts.v[2]
                token_b_required == amounts.v[3]
                transfer_a == scale_amount_down(pool.tokens[token_a_index.v],
                                                token_a_required)
                transfer_b == scale_amount_down(pool.tokens[token_b_index.v],
                                                token_b_required)
            IN IF ~amounts.ok THEN Reject(amounts)
               ELSE IF ~transfer_a.ok THEN Reject(Panic)
               ELSE IF ~(transfer_a.v <= input_token_a_amount)
               THEN Reject(SlippageExceeded)
               ELSE IF ~transfer_b.ok THEN Reject(Panic)
               ELSE IF ~(transfer_b.v <= input_token_b_amount)
               THEN Reject(SlippageExceeded)
               ELSE DepositSettle(pool, token_a_index.v, token_b_index.v,
                                  token_a_required, token_b_required,
                                  transfer_a.v, transfer_b.v, lp_to_mint, cpi_fail)

\* instructions/stable_deposit.rs: one amount of a deposit into a pool
\* that has LP supply
StableDepositAmount(balance_scaled, lp_amount, lp_supply) ==
    IF ~MulFits(balance_scaled, lp_amount, U64_MAX) THEN MathOverflow
    ELSE IF lp_supply = 0 THEN MathOverflow
    ELSE Ok((balance_scaled * lp_amount) \div lp_supply)

\* instructions/stable_deposit.rs: handler
stable_deposit_handler(pool, lp_supply, mint_a, mint_b, max_amount_a, max_amount_b, lp_amount, cpi_fail) ==
    LET token_a_index == get_token_index(pool, mint_a)
        token_b_index == get_token_index(pool, mint_b)
        Reject(e) == {HandlerOutcome(e, pool.tokens, None, None, <<>>)}
    IN IF max_amount_a = 0 THEN Reject(InvalidAmount)
       ELSE IF max_amount_b = 0 THEN Reject(InvalidAmount)
       ELSE IF ~pool.is_active THEN Reject(PoolInActive)
       ELSE IF ~token_a_index.ok THEN Reject(InvalidMint)
       ELSE IF ~token_b_index.ok THEN Reject(InvalidMint)
       ELSE LET token_a == pool.tokens[token_a_index.v]
                token_b == pool.tokens[token_b_index.v]
                scaled_max_amount_a == scale_amount_up(token_a, max_amount_a)
                scaled_max_amount_b == scale_amount_up(token_b, max_amount_b)
                amount_a == StableDepositAmount(token_a.balance, lp_amount, lp_supply)
                amount_b == StableDepositAmount(token_b.balance, lp_amount, lp_supply)
                amounts ==
                    IF lp_supply = 0
                    THEN IF ~MulFits(scaled_max_amount_a.v, scaled_max_amount_b.v,
                                     U128_MAX)
                         THEN MathOverflow
                         ELSE LET lp == isqrt(scaled_max_amount_a.v
                                              * scaled_max_amount_b.v)
                              IN IF lp > U64_MAX THEN TryFromIntError
                                 ELSE Ok(<<lp, scaled_max_amount_a.v,
                                           scaled_max_amount_b.v>>)
                    ELSE IF lp_amount = 0 THEN InvalidAmount
                    ELSE IF ~amount_a.ok THEN amount_a
                    ELSE IF ~amount_b.ok THEN amount_b
                    ELSE Ok(<<lp_amount, amount_a.v, amount_b.v>>)
                transfer_a == scale_amount_down(token_a, amounts.v[2])
                transfer_b == scale_amount_down(token_b, amounts.v[3])
            IN IF ~scaled_max_amount_a.ok THEN Reject(Panic)
               ELSE IF ~scaled_max_amount_b.ok THEN Reject(Panic)
               ELSE IF ~amounts.ok THEN Reject(amounts)
               ELSE IF ~(amounts.v[2] <= scaled_max_amount_a.v)
               THEN Reject(SlippageExceeded)
               ELSE IF ~(amounts.v[3] <= scaled_max_amount_b.v)
               THEN Reject(SlippageExceeded)
               ELSE IF ~transfer_a.ok THEN Reject(Panic)
               ELSE IF cpi_fail = 1 THEN Reject(TokenProgramError)
               ELSE IF ~transfer_b.ok
               THEN {HandlerOutcome(Panic, pool.tokens, None, None, <<transfer_a.v>>)}
               ELSE DepositSettle(pool, token_a_index.v, token_b_index.v,
                                  amounts.v[2], amounts.v[3],
                                  transfer_a.v, transfer_b.v, amounts.v[1], cpi_fail)


\* `x.checked_mul(y).ok_or(MathOverflow)?.checked_div(z).ok_or(MathOverflow)?`
\* on u128
MulDiv128(x, y, z) ==
    IF ~MulFits(x, y, U128_MAX) THEN MathOverflow
    ELSE IF z = 0 THEN MathOverflow
    ELSE Ok((x * y) \div z)

\* instructions/deposit_unbalanced.rs: the pair of effective deposit
\* amounts (the excess part of the deposit charged the swap fee), a Result
\* whose value is the pair
EffectiveDepositAmounts(scaled_input_amount_a, scaled_input_amount_b, vault_a_balance, vault_b_balance, swap_fee) ==
    LET deposit_amount_ratio == MulDiv128(scaled_input_amount_a, SCALE,
                                          scaled_input_amount_b)
        current_pool_ratio == MulDiv128(vault_a_balance, SCALE, vault_b_balance)
        token_a_excess == deposit_amount_ratio.v > current_pool_ratio.v
        balanced == IF token_a_excess
                    THEN MulDiv128(current_pool_ratio.v, scaled_input_amount_b, SCALE)
                    ELSE MulDiv128(scaled_input_amount_a, SCALE, current_pool_ratio.v)
        excess_token == IF token_a_excess THEN scaled_input_amount_a
                        ELSE scaled_input_amount_b
        excess_amount == excess_token - balanced.v
        num == excess_amount * (SCALE - swap_fee)
        amount_after_fee == num \div SCALE
    IN IF ~deposit_amount_ratio.ok THEN deposit_amount_ratio
       ELSE IF ~current_pool_ratio.ok THEN current_pool_ratio
       ELSE IF ~balanced.ok THEN balanced
       ELSE IF excess_token < balanced.v THEN MathOverflow
       ELSE IF swap_fee > SCALE THEN MathOverflow
       ELSE IF ~MulFits(excess_amount, SCALE - swap_fee, U128_MAX) THEN MathOverflow
       ELSE IF token_a_excess
       THEN Ok(<<balanced.v + amount_after_fee, scaled_input_amount_b>>)
       ELSE Ok(<<scaled_input_amount_a, balanced.v + amount_after_fee>>)

\* instructions/deposit_unbalanced.rs, from the slippage check on, for one
\* result of calc_lp_to_mint
DepositUnbalancedSettle(pool, token_a_index, token_b_index, min_lp_amount, input_amount_a, input_amount_b, scaled_input_amount_a, scaled_input_amount_b, cpi_fail, lp_to_mint) ==
    IF ~lp_to_mint.ok
    THEN {HandlerOutcome(lp_to_mint, pool.tokens, None, None, <<>>)}
    ELSE IF ~(lp_to_mint.v >= min_lp_amount)
    THEN {HandlerOutcome(SlippageExceeded, pool.tokens, None, None, <<>>)}
    ELSE DepositSettle(pool, token_a_index, token_b_index,
                       scaled_input_amount_a, scaled_input_amount_b,
                       input_amount_a, input_amount_b, AsU64(lp_to_mint.v), cpi_fail)

\* instructions/deposit_unbalanced.rs: handler
deposit_unbalanced_handler(pool, lp_supply, token_a_mint, token_b_mint, min_lp_amount, input_amount_a, input_amount_b, cpi_fail) ==
    LET token_a_index == get_token_index(pool, token_a_mint)
        token_b_index == get_token_index(pool, token_b_mint)
        Reject(e) == {HandlerOutcome(e, pool.tokens, None, None, <<>>)}
    IN IF ~(min_lp_amount > 0 /\ input_amount_a > 0 /\ input_amount_b > 0)
       THEN Reject(InvalidAmount)
       ELSE IF ~pool.is_active THEN Reject(PoolInActive)
       ELSE IF ~token_a_index.ok THEN Reject(InvalidMint)
       ELSE IF ~token_b_index.ok THEN Reject(InvalidMint)
       ELSE LET token_a == pool.tokens[token_a_index.v]
                token_b == pool.tokens[token_b_index.v]
                scaled_input_amount_a == scale_amount_up(token_a, input_amount_a)
                scaled_input_amount_b == scale_amount_up(token_b, input_amount_b)
                effective == EffectiveDepositAmounts(scaled_input_amount_a.v,
                                 scaled_input_amount_b.v, token_a.balance,
                                 token_b.balance, pool.swap_fee)
                weights == <<token_a.weight, token_b.weight>>
            IN IF ~scaled_input_amount_a.ok THEN Reject(Panic)
               ELSE IF ~scaled_input_amount_b.ok THEN Reject(Panic)
               ELSE IF ~effective.ok THEN Reject(effective)
               ELSE UNION {
                 IF ~old_k.r.ok THEN Reject(old_k.r)
                 ELSE IF ~AddFits(token_a.balance, effective.v[1], U128_MAX)
                 THEN Reject(MathOverflow)
                 ELSE IF ~AddFits(token_b.balance, effective.v[2], U128_MAX)
                 THEN Reject(MathOverflow)
                 ELSE UNION {
                   IF ~new_k.r.ok THEN Reject(new_k.r)
                   ELSE UNION {
                     DepositUnbalancedSettle(pool, token_a_index.v, token_b_index.v,
                         min_lp_amount, input_amount_a, input_amount_b,
                         scaled_input_amount_a.v, scaled_input_amount_b.v,
                         cpi_fail, lp_to_mint) :
                       lp_to_mint \in calc_lp_to_mint(lp_supply, new_k.r.v,
                                                      old_k.r.v, ONE)} :
                     new_k \in calc_invariant(
                                  <<token_a.balance + effective.v[1],
                                    token_b.balance + effective.v[2]>>, weights)} :
                   old_k \in calc_invariant(<<token_a.balance, token_b.balance>>,
                                            weights)}


(***************************************************************************)
(* Specification SpecHandlers: one instruction on one pool.                *)
(* args = [ix, pool, lp_supply, mints, data, cpi_fail]: ix the instruction *)
(* lib.rs dispatches on, pool the pool account, lp_supply the supply of    *)
(* the LP mint, mints the two mint accounts passed (the account            *)
(* constraints make them differ), data the instruction's u64 arguments in  *)
(* declared order.  ret is the outcome of the handler.                     *)
(***************************************************************************)
PoolOf(is_active, swap_fee, amp, balances, weights, scaling_factors) ==
    [is_active |-> is_active, swap_fee |-> swap_fee, amp |-> amp,
     tokens |-> <<[mint |-> "a", scaling_factor |-> scaling_factors[1],
                   balance |-> balances[1], weight |-> weights[1]],
                  [mint |-> "b", scaling_factor |-> scaling_factors[2],
                   balance |-> balances[2], weight |-> weights[2]]>>]

\* initialize_*_pool: scaling_factor = 10^(max decimals - decimals),
\* swap_fee < ONE, 0 < weight a < ONE and weight b = ONE - weight a
\* (weight 0 in a stable pool), pool.amp = amp * AMP_PRECISION with
\* MIN_AMP <= amp <= MAX_AMP
ScalingFactors == {<<1, 1>>, <<1, 10>>, <<10, 1>>}
HandlerFees == {0, 3}
HandlerWeights == {<<ONE \div 2, ONE - ONE \div 2>>, <<2, ONE - 2>>}
HandlerAmps == {MIN_AMP * AMP_PRECISION, 5 * AMP_PRECISION}
MintPairs == {<<"a", "b">>, <<"b", "a">>, <<"a", "x">>, <<"x", "b">>}

SwapBalances == {<<20, 50>>, <<300, 20>>, <<U64_MAX, 50>>}
StableSwapBalances == {<<305, 305>>, <<40, 305>>, <<U64_MAX, 305>>}
DepositPoolBalances == {<<0, 0>>, <<20, 50>>, <<5, U64_MAX \div 2 + 1>>}
UnbalancedBalances == {<<ONE, ONE>>, <<12, 15>>, <<0, ONE>>}

WeightedPools(balances) ==
    {PoolOf(TRUE, f, 0, b, w, s) :
        f \in HandlerFees, b \in balances, w \in HandlerWeights, s \in ScalingFactors}
      \cup {PoolOf(FALSE, 0, 0, b, <<ONE \div 2, ONE - ONE \div 2>>, <<1, 1>>) :
                b \in balances}

StablePoolsOf(balances) ==
    {PoolOf(TRUE, f, a, b, <<0, 0>>, s) :
        f \in HandlerFees, a \in HandlerAmps, b \in balances, s \in ScalingFactors}
      \cup {PoolOf(FALSE, 0, MIN_AMP * AMP_PRECISION, b, <<0, 0>>, <<1, 1>>) : b \in balances}

SwapInputs ==
    [ix : {"swap"}, pool : WeightedPools(SwapBalances), lp_supply : {0},
     mints : MintPairs, data : {0, 1, 30, U64_MAX} \X {0, 1, 5}, cpi_fail : 0..2]

StableSwapInputs ==
    [ix : {"stable_swap"}, pool : StablePoolsOf(StableSwapBalances), lp_supply : {0},
     mints : MintPairs, data : {0, 1, 7, 30} \X {0, 1, 5}, cpi_fail : 0..2]

DepositInputs ==
    [ix : {"deposit"}, pool : WeightedPools(DepositPoolBalances),
     lp_supply : {0, ONE, 100}, mints : {<<"a", "b">>, <<"b", "a">>, <<"a", "x">>},
     data : {0, 1, 7} \X {0, 30, U64_MAX} \X {0, 30, U64_MAX}, cpi_fail : {0, 3}]

DepositUnbalancedInputs ==
    [ix : {"deposit_unbalanced"}, pool : WeightedPools(UnbalancedBalances),
     lp_supply : {0, 100}, mints : {<<"a", "b">>, <<"b", "a">>, <<"a", "x">>},
     data : {0, 1, 3} \X {0, 1, 3} \X {0, 1, 3}, cpi_fail : {0, 2}]

StableDepositInputs ==
    [ix : {"stable_deposit"}, pool : StablePoolsOf(DepositPoolBalances),
     lp_supply : {0, 1, 100}, mints : {<<"a", "b">>, <<"b", "a">>, <<"a", "x">>},
     data : {0, 30, U64_MAX} \X {0, 30, U64_MAX} \X {0, 1, 7}, cpi_fail : {0, 1}]

InitHandlers ==
    /\ pc = "start"
    /\ args \in SwapInputs \cup StableSwapInputs \cup DepositInputs
                  \cup DepositUnbalancedInputs \cup StableDepositInputs
    /\ ret = HandlerOutcome(None, args.pool.tokens, None, None, <<>>)

Swap ==
    /\ pc = "start"
    /\ args.ix = "swap"
    /\ pc' = "swap"
    /\ ret' \in swap_handler(args.pool, args.mints[1], args.mints[2],
                             args.data[1], args.data[2], args.cpi_fail)
    /\ UNCHANGED args

StableSwap ==
    /\ pc = "start"
    /\ args.ix = "stable_swap"
    /\ pc' = "stable_swap"
    /\ ret' \in stable_swap_handler(args.pool, args.mints[1], args.mints[2],
                                    args.data[1], args.data[2], args.cpi_fail)
    /\ UNCHANGED args

Deposit ==
    /\ pc = "start"
    /\ args.ix = "deposit"
    /\ pc' = "deposit"
    /\ ret' \in deposit_handler(args.pool, args.lp_supply, args.mints[1],
                                args.mints[2], args.data[1], args.data[2],
                                args.data[3], args.cpi_fail)
    /\ UNCHANGED args

DepositUnbalanced ==
    /\ pc = "start"
    /\ args.ix = "deposit_unbalanced"
    /\ pc' = "deposit_unbalanced"
    /\ ret' \in deposit_unbalanced_handler(args.pool, args.lp_supply, args.mints[1],
                                           args.mints[2], args.data[1], args.data[2],
                                           args.data[3], args.cpi_fail)
    /\ UNCHANGED args

StableDeposit ==
    /\ pc = "start"
    /\ args.ix = "stable_deposit"
    /\ pc' = "stable_deposit"
    /\ ret' \in stable_deposit_handler(args.pool, args.lp_supply, args.mints[1],
                                       args.mints[2], args.data[1], args.data[2],
                                       args.data[3], args.cpi_fail)
    /\ UNCHANGED args

NextHandlers ==
    \/ Swap
    \/ StableSwap
    \/ Deposit
    \/ DepositUnbalanced
    \/ StableDeposit

SpecHandlers == InitHandlers /\ [][NextHandlers]_vars

\* the token an instruction names first and second, and the recorded
\* balances before and after the call
TokenIn == get_token_index(args.pool, args.mints[1]).v
TokenOut == get_token_index(args.pool, args.mints[2]).v
BalanceBefore(i) == args.pool.tokens[i].balance
BalanceAfter(i) == ret.tokens[i].balance

\* the scaled amount a swap of args.data[1] raw tokens brings in
ScaledAmountIn == args.data[1] * args.pool.tokens[TokenIn].scaling_factor

\* a swap that went through handed the engine and added to the recorded
\* balance the scaled amount in, and transferred out the amount after the
\* fee divided by the output token's scaling_factor
SwapScales ==
    /\ ret.engine_in = Some(ScaledAmountIn)
    /\ BalanceAfter(TokenIn) = BalanceBefore(TokenIn) + ScaledAmountIn
    /\ ret.transfers[1] = args.data[1]
    /\ ret.transfers[2] =
           ret.amount_out.v \div args.pool.tokens[TokenOut].scaling_factor
    /\ BalanceAfter(TokenOut) = BalanceBefore(TokenOut) - ret.amount_out.v

\* C19: a swap that succeeds, weighted or stable, gives the engine and adds
\* to the recorded balance amount_in * scaling_factor, and transfers out
\* the scaled result divided by the output token's scaling_factor
C19_SwapsScaleAmounts ==
    (pc \in {"swap", "stable_swap"} /\ ret.result.ok) => SwapScales

\* C20: when a handler returns an error, every recorded pool balance is
\* what it was before the call
C20_ErrorLeavesBalances ==
    (pc # "start" /\ ~ret.result.ok /\ ret.result # Panic) =>
        \A i \in 1..Len(args.pool.tokens) : BalanceAfter(i) = BalanceBefore(i)


\* the results the engine can give the swap of args, the amount it leaves
\* after the fee, and an amount of the output token in raw token units as
\* the handler takes them (the weighted handler works on raw amounts)
EngineOut ==
    IF pc = "swap"
    THEN calc_out_given_in(args.pool.tokens[TokenIn].balance,
                           args.pool.tokens[TokenIn].weight,
                           args.pool.tokens[TokenOut].balance,
                           args.pool.tokens[TokenOut].weight, args.data[1])
    ELSE stable_calc_out_given_in(args.pool.amp, get_balances(args.pool),
                                  TokenIn, TokenOut, ScaledAmountIn)
FeeReduced(amount_out) == mul_down(amount_out, ONE - args.pool.swap_fee)
RawOut(amount) ==
    IF pc = "swap" THEN amount
    ELSE amount \div args.pool.tokens[TokenOut].scaling_factor

\* C21: a swap or stable_swap that succeeds transfers out, in raw units,
\* the fee-reduced engine output mul_down(amount_out, ONE - swap_fee), and
\* that is at least min_amount_out; when the fee-reduced output is below
\* min_amount_out the handler returns SlippageExceeded with no transfer
\* made and no balance changed
C21_SlippageProtection ==
    pc \in {"swap", "stable_swap"} =>
        /\ ret.result.ok =>
              /\ Len(ret.transfers) = 2
              /\ ret.transfers[2] >= args.data[2]
              /\ ret.transfers[2] = RawOut(ret.amount_out.v)
              /\ \E o \in EngineOut : o.ok /\ ret.amount_out = FeeReduced(o.v)
        /\ (ret.amount_out.ok /\ RawOut(ret.amount_out.v) < args.data[2]) =>
              /\ ret.result = SlippageExceeded
              /\ ret.transfers = <<>>
              /\ ret.tokens = args.pool.tokens

C21_Witness ==
    /\ pc = "stable_swap"
    /\ ret.result.ok
    /\ args.pool.tokens[TokenOut].scaling_factor = 10
    /\ args.pool.swap_fee > 0
    /\ ret.transfers[2] >= 1
    /\ ret.amount_out.v > ret.transfers[2]


(***************************************************************************)
(* instructions/initialize_weighted_pool.rs, initialize_stable_pool.rs and *)
(* add_token_to_pool.rs.  An initialize handler is the set of Results it   *)
(* can return, the value of Ok being the pool it wrote.                    *)
(***************************************************************************)
InvalidWeight == Err("InvalidWeight")
AmpTooLow == Err("AmpTooLow")
AmpTooHigh == Err("AmpTooHigh")
AccountDidNotSerialize == Err("AccountDidNotSerialize")

\* #[max_len(8)]: the pool account is allocated for 8 PoolTokens
MAX_TOKENS == 8

\* 10_u64.pow(exp): the power, and when it leaves the type an abort
\* (overflow checks on) or the wrapped value (off)
RECURSIVE Pow10(_)
Pow10(exp) ==
    IF exp = 0 THEN {Ok(1)}
    ELSE UNION {IF ~p.ok THEN {Panic}
                ELSE IF MulFits(p.v, 10, U64_MAX) THEN {Ok(p.v * 10)}
                ELSE {Panic, Ok((p.v * 10) % (U64_MAX + 1))} :
                   p \in Pow10(exp - 1)}

\* the two PoolTokens an initialize handler builds; the vaults are created
\* by the same instruction and hold nothing
InitialTokens(decimals_a, decimals_b, weight_a, weight_b) ==
    LET max_decimal == Max(decimals_a, decimals_b)
    IN {IF ~factor_a.ok \/ ~factor_b.ok THEN Panic
        ELSE Ok(<<[mint |-> "a", scaling_factor |-> factor_a.v,
                   balance |-> 0, weight |-> weight_a],
                  [mint |-> "b", scaling_factor |-> factor_b.v,
                   balance |-> 0, weight |-> weight_b]>>) :
           factor_a \in Pow10(max_decimal - decimals_a),
           factor_b \in Pow10(max_decimal - decimals_b)}

\* instructions/initialize_weighted_pool.rs: handler
initialize_weighted_pool_handler(swap_fee, only_token_a_weight, decimals_a, decimals_b) ==
    IF ~(only_token_a_weight < ONE_U64) THEN {InvalidWeight}
    ELSE IF ~(only_token_a_weight > 0) THEN {InvalidWeight}
    ELSE IF ~(swap_fee < ONE_U64) THEN {InvalidAmount}
    ELSE {IF ~tokens.ok THEN tokens
          ELSE Ok([is_active |-> TRUE, swap_fee |-> swap_fee, amp |-> 0,
                   tokens |-> tokens.v]) :
             tokens \in InitialTokens(decimals_a, decimals_b, only_token_a_weight,
                                      ONE_U64 - only_token_a_weight)}

\* initialize_stable_pool without the upper bound on amp: the variant the
\* amplification range is tested against
initialize_stable_pool_no_max(swap_fee, amp, decimals_a, decimals_b) ==
    IF ~(amp >= MIN_AMP) THEN {AmpTooLow}
    ELSE IF ~(swap_fee < ONE_U64) THEN {InvalidAmount}
    ELSE {IF ~tokens.ok THEN tokens
          ELSE IF ~MulFits(amp, AMP_PRECISION, U64_MAX) THEN MathOverflow
          ELSE Ok([is_active |-> TRUE, swap_fee |-> swap_fee,
                   amp |-> amp * AMP_PRECISION,
                   amp_target |-> amp * AMP_PRECISION, tokens |-> tokens.v]) :
             tokens \in InitialTokens(decimals_a, decimals_b, 0, 0)}

\* instructions/initialize_stable_pool.rs: handler
initialize_stable_pool_handler(swap_fee, amp, decimals_a, decimals_b) ==
    IF ~(amp >= MIN_AMP) THEN {AmpTooLow}
    ELSE IF ~(amp <= MAX_AMP) THEN {AmpTooHigh}
    ELSE IF ~(swap_fee < ONE_U64) THEN {InvalidAmount}
    ELSE {IF ~tokens.ok THEN tokens
          ELSE IF ~MulFits(amp, AMP_PRECISION, U64_MAX) THEN MathOverflow
          ELSE Ok([is_active |-> TRUE, swap_fee |-> swap_fee,
                   amp |-> amp * AMP_PRECISION,
                   amp_target |-> amp * AMP_PRECISION, tokens |-> tokens.v]) :
             tokens \in InitialTokens(decimals_a, decimals_b, 0, 0)}

\* instructions/add_token_to_pool.rs: handler
add_token_to_pool_handler(pool, mint, weight, scaling_factor) ==
    Ok([pool EXCEPT !.tokens = Append(@, [mint |-> mint,
                                          scaling_factor |-> scaling_factor,
                                          balance |-> 0, weight |-> weight])])

\* an account with room for any number of tokens: the variant the token
\* count is tested against
PoolFitsAlways(pool) == Len(pool.tokens) >= 0

\* the pool fits the account initialize_weighted_pool allocated for it
PoolFits(pool) == Len(pool.tokens) <= MAX_TOKENS


(***************************************************************************)
(* Specification SpecPool: the life of one pool.                           *)
(* args is the accounts: kind ("none" before the pool is initialized,      *)
(* then "weighted" or "stable"), pool the pool account, lp_supply the      *)
(* supply of the LP mint, vault the raw amount each token vault holds      *)
(* (what went in less what went out), calls the number of deposits and     *)
(* swaps that went through.  pc is the instruction that ran last and ret   *)
(* its outcome.  An instruction that fails leaves the accounts as they     *)
(* were; the token program refuses a transfer the vault cannot pay.        *)
(***************************************************************************)
MaxCalls == 2

NoPool == [is_active |-> FALSE, swap_fee |-> 0, amp |-> 0, tokens |-> <<>>]

PoolFeeArgs == {0, 3, ONE_U64}
PoolWeightArgs == {0, ONE_U64 \div 2, ONE_U64}
PoolAmpArgs == {0, MIN_AMP, 5, MAX_AMP + 1}
PoolDecimals == {<<1, 1>>, <<0, 1>>, <<0, 8>>}
AddedMints == <<"c", "d", "e", "f", "g", "h", "i">>
AddedWeights == {3}
PoolDepositArgs == {<<0, 3, 5>>, <<1, 3, 5>>}
PoolUnbalancedArgs == {<<105, 3, 1>>}
PoolSwapArgs == {<<5, 1>>}
PoolStableDepositArgs == {<<30, 30, 7>>}
PoolStableSwapArgs == {<<7, 1>>}
SwapDirections == {<<"a", "b">>, <<"b", "a">>}

InitPool ==
    /\ pc = "none"
    /\ args = [kind |-> "none", pool |-> NoPool, lp_supply |-> 0, vault |-> <<>>,
               calls |-> 0]
    /\ ret = HandlerOutcome(None, <<>>, None, None, <<>>)

\* the accounts and the outcome an initialize instruction leaves
Initialized(kind, result) ==
    /\ args' = IF result.ok
               THEN [kind |-> kind, pool |-> result.v, lp_supply |-> 0,
                     vault |-> <<0, 0>>, calls |-> 0]
               ELSE args
    /\ ret' = HandlerOutcome(IF result.ok THEN Ok(0) ELSE result,
                             IF result.ok THEN result.v.tokens ELSE args.pool.tokens,
                             None, None, <<>>)

InitializeWeightedPool ==
    /\ args.kind = "none"
    /\ pc' = "initialize_weighted_pool"
    /\ \E swap_fee \in PoolFeeArgs, weight \in PoolWeightArgs, d \in PoolDecimals :
         \E result \in initialize_weighted_pool_handler(swap_fee, weight, d[1], d[2]) :
            Initialized("weighted", result)

InitializeStablePool ==
    /\ args.kind = "none"
    /\ pc' = "initialize_stable_pool"
    /\ \E swap_fee \in PoolFeeArgs, amp \in PoolAmpArgs, d \in PoolDecimals :
         \E result \in initialize_stable_pool_handler(swap_fee, amp, d[1], d[2]) :
            Initialized("stable", result)

AddTokenToPool ==
    /\ args.kind = "weighted"
    /\ Len(args.pool.tokens) - 1 <= Len(AddedMints)
    /\ pc' = "add_token_to_pool"
    /\ \E weight \in AddedWeights :
         LET result == add_token_to_pool_handler(args.pool,
                           AddedMints[Len(args.pool.tokens) - 1], weight, 1)
         IN IF PoolFits(result.v)
            THEN /\ args' = [args EXCEPT !.pool = result.v, !.vault = Append(@, 0)]
                 /\ ret' = HandlerOutcome(Ok(0), result.v.tokens, None, None, <<>>)
            ELSE /\ args' = args
                 /\ ret' = HandlerOutcome(AccountDidNotSerialize, args.pool.tokens,
                                          None, None, <<>>)

\* the accounts and the outcome a swap leaves: mint_in's vault receives
\* transfers[1], mint_out's pays transfers[2]
Swapped(outcome, mint_in, mint_out) ==
    LET i == get_token_index(args.pool, mint_in).v
        j == get_token_index(args.pool, mint_out).v
        paid == outcome.result.ok /\ args.vault[j] >= outcome.transfers[2]
    IN /\ args' = IF paid
                  THEN [args EXCEPT !.pool.tokens = outcome.tokens,
                                    !.vault[i] = @ + outcome.transfers[1],
                                    !.vault[j] = @ - outcome.transfers[2],
                                    !.calls = @ + 1]
                  ELSE args
       /\ ret' = IF outcome.result.ok /\ ~paid
                 THEN HandlerOutcome(TokenProgramError, args.pool.tokens,
                                     outcome.engine_in, outcome.amount_out,
                                     <<outcome.transfers[1]>>)
                 ELSE outcome

\* the accounts and the outcome a deposit leaves: the vaults receive
\* transfers[1] and transfers[2], transfers[3] LP tokens are minted
Deposited(outcome, mint_a, mint_b) ==
    LET i == get_token_index(args.pool, mint_a).v
        j == get_token_index(args.pool, mint_b).v
        minted == outcome.result.ok
                    /\ AddFits(args.lp_supply, outcome.transfers[3], U64_MAX)
    IN /\ args' = IF minted
                  THEN [args EXCEPT !.pool.tokens = outcome.tokens,
                                    !.vault[i] = @ + outcome.transfers[1],
                                    !.vault[j] = @ + outcome.transfers[2],
                                    !.lp_supply = @ + outcome.transfers[3],
                                    !.calls = @ + 1]
                  ELSE args
       /\ ret' = IF outcome.result.ok /\ ~minted
                 THEN HandlerOutcome(TokenProgramError, args.pool.tokens, None, None,
                                     <<outcome.transfers[1], outcome.transfers[2]>>)
                 ELSE outcome

PoolSwap ==
    /\ args.kind = "weighted"
    /\ args.calls < MaxCalls
    /\ pc' = "swap"
    /\ \E m \in SwapDirections, d \in PoolSwapArgs :
         \E outcome \in swap_handler(args.pool, m[1], m[2], d[1], d[2], 0) :
            Swapped(outcome, m[1], m[2])

PoolDeposit ==
    /\ args.kind = "weighted"
    /\ args.calls < MaxCalls
    /\ pc' = "deposit"
    /\ \E d \in PoolDepositArgs :
         \E outcome \in deposit_handler(args.pool, args.lp_supply, "a", "b",
                                        d[1], d[2], d[3], 0) :
            Deposited(outcome, "a", "b")

PoolDepositUnbalanced ==
    /\ args.kind = "weighted"
    /\ args.calls < MaxCalls
    /\ pc' = "deposit_unbalanced"
    /\ \E d \in PoolUnbalancedArgs :
         \E outcome \in deposit_unbalanced_handler(args.pool, args.lp_supply, "a", "b",
                                                   d[1], d[2], d[3], 0) :
            Deposited(outcome, "a", "b")

PoolStableSwap ==
    /\ args.kind = "stable"
    /\ args.calls < MaxCalls
    /\ pc' = "stable_swap"
    /\ \E m \in SwapDirections, d \in PoolStableSwapArgs :
         \E outcome \in stable_swap_handler(args.pool, m[1], m[2], d[1], d[2], 0) :
            Swapped(outcome, m[1], m[2])

PoolStableDeposit ==
    /\ args.kind = "stable"
    /\ args.calls < MaxCalls
    /\ pc' = "stable_deposit"
    /\ \E d \in PoolStableDepositArgs :
         \E outcome \in stable_deposit_handler(args.pool, args.lp_supply, "a", "b",
                                               d[1], d[2], d[3], 0) :
            Deposited(outcome, "a", "b")

NextPool ==
    \/ InitializeWeightedPool
    \/ InitializeStablePool
    \/ AddTokenToPool
    \/ PoolSwap
    \/ PoolDeposit
    \/ PoolDepositUnbalanced
    \/ PoolStableSwap
    \/ PoolStableDeposit

SpecPool == InitPool /\ [][NextPool]_vars


\* the weights of the pool's tokens, in order (state/pool.rs: get_weights)
get_weights(pool) == [i \in 1..Len(pool.tokens) |-> pool.tokens[i].weight]

InitializeWeightedChecks ==
    \A swap_fee \in PoolFeeArgs, weight \in PoolWeightArgs, d \in PoolDecimals :
        \A result \in initialize_weighted_pool_handler(swap_fee, weight, d[1], d[2]) :
            result.ok => /\ 0 < weight /\ weight < ONE_U64
                         /\ swap_fee < ONE_U64
                         /\ result.v.swap_fee = swap_fee
                         /\ get_weights(result.v) = <<weight, ONE_U64 - weight>>

WeightsValid(pool) ==
    /\ \A i \in 1..Len(pool.tokens) :
          0 < pool.tokens[i].weight /\ pool.tokens[i].weight < ONE_U64
    /\ SeqSum(get_weights(pool)) = ONE_U64

(***************************************************************************)
(* C23: initialize_weighted_pool succeeds only for a weight strictly       *)
(* between 0 and ONE and a fee below ONE, and sets the two weights to the  *)
(* weight and its complement; in every state reached afterwards, after     *)
(* add_token_to_pool included, every weight lies strictly between 0 and    *)
(* ONE and the weights sum to ONE.                                         *)
(***************************************************************************)
C23_WeightsValid ==
    /\ InitializeWeightedChecks
    /\ args.kind = "weighted" => WeightsValid(args.pool)

\* the part of C23 that the code keeps: the weights as initialize_weighted_pool
\* leaves them, as long as no token has been added
C23_WeightsValidUntilAdd ==
    /\ InitializeWeightedChecks
    /\ (args.kind = "weighted" /\ Len(args.pool.tokens) = 2) => WeightsValid(args.pool)

\* what initialize_stable_pool accepts, and the amplification it stores
InitializeStableChecks ==
    \A swap_fee \in PoolFeeArgs, amp \in PoolAmpArgs, d \in PoolDecimals :
        \A result \in initialize_stable_pool_handler(swap_fee, amp, d[1], d[2]) :
            result.ok => /\ MIN_AMP <= amp /\ amp <= MAX_AMP
                         /\ swap_fee < ONE_U64
                         /\ result.v.amp = amp * AMP_PRECISION
                         /\ result.v.amp_target = result.v.amp

AmpInRange(pool) ==
    /\ MIN_AMP * AMP_PRECISION <= pool.amp
    /\ pool.amp <= MAX_AMP * AMP_PRECISION
    /\ pool.amp_target = pool.amp

(***************************************************************************)
(* C24: initialize_stable_pool fails unless MIN_AMP <= amp <= MAX_AMP and  *)
(* swap_fee < ONE, stores amp * AMP_PRECISION as pool.amp and amp_target,  *)
(* and no stable_deposit or stable_swap changes pool.amp, which stays      *)
(* within [MIN_AMP * AMP_PRECISION, MAX_AMP * AMP_PRECISION].              *)
(***************************************************************************)
C24_AmpInRange ==
    [][/\ InitializeStableChecks
       /\ args'.kind = "stable" => AmpInRange(args'.pool)
       /\ args.kind = "stable" => args'.pool.amp = args.pool.amp]_vars

\* a stable swap went through on a pool that had taken a deposit
C24_Witness ==
    /\ pc = "stable_swap"
    /\ ret.result.ok
    /\ args.kind = "stable"
    /\ args.calls = MaxCalls
    /\ args.pool.amp = 5 * AMP_PRECISION

\* the recorded balance of token i is covered by what its vault holds
Covered(i) ==
    args.pool.tokens[i].balance <= args.vault[i] * args.pool.tokens[i].scaling_factor

(***************************************************************************)
(* C25: in every state reached by successful deposit, deposit_unbalanced,  *)
(* swap, stable_deposit and stable_swap calls on a pool whose tokens have  *)
(* scaling_factor >= 1, the recorded balance of every token is at most the *)
(* raw amount its vault holds times its scaling factor.                    *)
(***************************************************************************)
C25_BalancesCovered ==
    (\A i \in 1..Len(args.pool.tokens) : args.pool.tokens[i].scaling_factor >= 1) =>
        \A i \in 1..Len(args.pool.tokens) : Covered(i)


\* x / y rounded up, in exact integer arithmetic
CeilDiv(x, y) == (x + y - 1) \div y

(***************************************************************************)
(* C26: a deposit into a weighted pool whose LP supply is positive, when   *)
(* it succeeds, mints exactly lp_amount and raises each of the two         *)
(* recorded balances by ceil(lp_amount * balance / lp_supply).             *)
(***************************************************************************)
C26_DepositProRata ==
    (pc = "deposit" /\ ret.result.ok /\ args.lp_supply > 0) =>
        /\ ret.transfers[3] = args.data[1]
        /\ \A i \in {TokenIn, TokenOut} :
              BalanceAfter(i) =
                 BalanceBefore(i) + CeilDiv(args.data[1] * BalanceBefore(i), args.lp_supply)

\* what the code keeps of C26: lp_amount is minted, and each balance grows by
\* the fixed-point quotient, ceil(lp_amount * balance * ONE / lp_supply)
C26_DepositFixedPointQuotient ==
    (pc = "deposit" /\ ret.result.ok /\ args.lp_supply > 0) =>
        /\ ret.transfers[3] = args.data[1]
        /\ \A i \in {TokenIn, TokenOut} :
              BalanceAfter(i) =
                 BalanceBefore(i)
                   + CeilDiv(args.data[1] * BalanceBefore(i) * ONE, args.lp_supply)


\* what a deposit added to the recorded balance of token i
AmountAdded(i) == BalanceAfter(i) - BalanceBefore(i)

(***************************************************************************)
(* C27: whenever stable_deposit succeeds with a positive LP supply and     *)
(* mints lp_amount > 0, for each of the two tokens with a positive balance *)
(* the amount added satisfies amount * lp_supply >= lp_amount * balance;   *)
(* no call mints LP while depositing 0 of a token the pool holds.          *)
(***************************************************************************)
C27_StableDepositNotBelowProRata ==
    (pc = "stable_deposit" /\ ret.result.ok /\ args.lp_supply > 0
        /\ ret.transfers[3] > 0) =>
        \A i \in {TokenIn, TokenOut} :
            BalanceBefore(i) > 0 =>
                /\ AmountAdded(i) * args.lp_supply >= ret.transfers[3] * BalanceBefore(i)
                /\ AmountAdded(i) > 0

\* what the code keeps of C27: lp_amount is minted and each balance grows by
\* the pro-rata amount rounded down
C27_StableDepositFloors ==
    (pc = "stable_deposit" /\ ret.result.ok /\ args.lp_supply > 0) =>
        /\ ret.transfers[3] = args.data[3]
        /\ args.data[3] > 0
        /\ \A i \in {TokenIn, TokenOut} :
              AmountAdded(i) = (BalanceBefore(i) * args.data[3]) \div args.lp_supply


\* the product of the two recorded balances of a swap, in exact integers
ProductBefore == BalanceBefore(TokenIn) * BalanceBefore(TokenOut)
ProductAfter == BalanceAfter(TokenIn) * BalanceAfter(TokenOut)

EqualWeights ==
    args.pool.tokens[TokenIn].weight = args.pool.tokens[TokenOut].weight

(***************************************************************************)
(* C28: a successful weighted swap on a two-token pool with equal weights  *)
(* and swap_fee in [0, ONE) leaves the product of the two recorded         *)
(* balances at least what it was before the swap; by induction the product *)
(* never decreases along a sequence of such swaps.                         *)
(***************************************************************************)
C28_ProductNeverDecreases ==
    (pc = "swap" /\ ret.result.ok /\ EqualWeights) => ProductAfter >= ProductBefore

\* what the code keeps of C28: the product does not decrease when the
\* balance of the token paid in stays within u64
C28_ProductWithoutWrap ==
    (pc = "swap" /\ ret.result.ok /\ EqualWeights
        /\ BalanceBefore(TokenIn) + args.data[1] <= U64_MAX) =>
        ProductAfter >= ProductBefore


\* both mints of the swap are tokens of the pool
MintsFound ==
    /\ get_token_index(args.pool, args.mints[1]).ok
    /\ get_token_index(args.pool, args.mints[2]).ok

\* the most the engine may return: the whole balance out in a weighted
\* pool, one unit less in a stable pool
MostOut == IF pc = "swap" THEN BalanceBefore(TokenOut) ELSE BalanceBefore(TokenOut) - 1

(***************************************************************************)
(* C29: whenever it succeeds, weighted calc_out_given_in returns at most   *)
(* balance_out and stable calc_out_given_in at most balances[idx_out] - 1; *)
(* so the amount a swap or stable_swap takes off the output token's        *)
(* recorded balance never exceeds that balance, the subtraction that ends  *)
(* the handler never underflows, and after a stable swap the output        *)
(* token's recorded balance is at least 1.                                 *)
(***************************************************************************)
C29_NoOverdraw ==
    (pc \in {"swap", "stable_swap"} /\ MintsFound) =>
        /\ \A o \in EngineOut : o.ok => o.v <= MostOut
        /\ ret.amount_out.ok => ret.amount_out.v <= MostOut
        /\ ret.result.ok =>
              /\ BalanceAfter(TokenOut) = BalanceBefore(TokenOut) - ret.amount_out.v
              /\ pc = "stable_swap" => BalanceAfter(TokenOut) >= 1

\* a stable swap that took all but the last units of the output balance
C29_Witness ==
    /\ pc = "stable_swap"
    /\ ret.result.ok
    /\ ret.amount_out.v > 0
    /\ BalanceAfter(TokenOut) < BalanceBefore(TokenOut)
    /\ BalanceBefore(TokenOut) = 40


\* every balance of the array is the same positive amount
Balanced ==
    \A i \in 1..Len(args.balances) :
        args.balances[i] = args.balances[1] /\ args.balances[i] > 0

AllPositive == \A i \in 1..Len(args.balances) : args.balances[i] > 0

\* calc_invariant returned n * b, out of its first iteration
ReturnsSum ==
    /\ ret.r = Some(Len(args.balances) * args.balances[1])
    /\ ret.inv.iters = 1

(***************************************************************************)
(* C30: for every amp >= AMP_PRECISION and every array of n >= 2 balances  *)
(* all equal to the same b > 0, calc_invariant returns exactly n * b after *)
(* the first iteration; and for every array of positive balances on which  *)
(* calc_invariant succeeds, the D returned is at most the sum of the       *)
(* balances.                                                               *)
(***************************************************************************)
C30_BalancedInvariant ==
    pc = "invariant" =>
        /\ (args.amp >= AMP_PRECISION /\ Balanced) => ReturnsSum
        /\ (AllPositive /\ ret.r.ok) => ret.r.v <= SeqSum(args.balances)

(***************************************************************************)
(* C30 as the code has it: the balanced pool's invariant is n * b, out of  *)
(* the first iteration, whenever n * b fits u64 and calc_invariant         *)
(* succeeds (it returns None when amp * n leaves u64 or an intermediate    *)
(* product leaves U192); and whenever calc_invariant succeeds on positive  *)
(* balances, D is at most their sum.                                       *)
(***************************************************************************)
C30_BalancedInvariantInRange ==
    pc = "invariant" =>
        /\ (args.amp >= AMP_PRECISION /\ Balanced /\ ret.r.ok
              /\ SeqSum(args.balances) <= U64_MAX) => ReturnsSum
        /\ (AllPositive /\ ret.r.ok) => ret.r.v <= SeqSum(args.balances)

\* a balanced pool of two tokens whose invariant came out as the sum
C30_Witness ==
    /\ pc = "invariant"
    /\ args.balances = <<305, 305>>
    /\ args.amp = 5 * AMP_PRECISION
    /\ ret.r = Some(610)
    /\ ret.inv.iters = 1

====
